---- MODULE Spec2Model ----
(***************************************************************************)
(* SmartPaws api-gateway: intake store, CSV ingestion, the Austin loader   *)
(* script and the region-by-year intake heatmap (getIntakeHeatmap).        *)
(* Text values are sequences of one-character strings so that the string   *)
(* functions of the code (toLowerCase, includes, the regular expressions,  *)
(* charCodeAt) are computed on characters.                                 *)
(***************************************************************************)
EXTENDS Integers, Sequences, FiniteSets, TLC

\* JavaScript null / undefined / absent field, for a text value
\* (no text of the model equals it: every character is a one-character string)
NULL == <<"null">>
\* no number (no ZIP matched, no year derived, no datetime stored)
NoNumber == 0 - 1

(***************************************************************************)
(* Characters and strings                                                  *)
(***************************************************************************)
DigitChars == <<"0", "1", "2", "3", "4", "5", "6", "7", "8", "9">>
UpperChars == <<"A", "B", "C", "D", "E", "F", "G", "H", "I", "J", "K", "L", "M", "N", "O", "P", "Q", "R", "S", "T", "U", "V", "W", "X", "Y", "Z">>
LowerChars == <<"a", "b", "c", "d", "e", "f", "g", "h", "i", "j", "k", "l", "m", "n", "o", "p", "q", "r", "s", "t", "u", "v", "w", "x", "y", "z">>

IndexIn(seq, c) == CHOOSE i \in 1..Len(seq) : seq[i] = c
InSeq(seq, c) == \E i \in 1..Len(seq) : seq[i] = c

IsDigit(c) == InSeq(DigitChars, c)
IsSpace(c) == c = " "
\* \w of the regular expressions: [A-Za-z0-9_]
IsWordChar(c) == InSeq(DigitChars, c) \/ InSeq(UpperChars, c) \/ InSeq(LowerChars, c) \/ c = "_"

\* c.charCodeAt(0)
CharCode(c) ==
  IF InSeq(DigitChars, c) THEN 47 + IndexIn(DigitChars, c)
  ELSE IF InSeq(UpperChars, c) THEN 64 + IndexIn(UpperChars, c)
  ELSE IF InSeq(LowerChars, c) THEN 96 + IndexIn(LowerChars, c)
  ELSE IF c = " " THEN 32
  ELSE IF c = "(" THEN 40
  ELSE IF c = ")" THEN 41
  ELSE IF c = "," THEN 44
  ELSE IF c = "+" THEN 43
  ELSE IF c = "-" THEN 45
  ELSE IF c = "/" THEN 47
  ELSE IF c = "_" THEN 95
  ELSE 63

LowerChar(c) == IF InSeq(UpperChars, c) THEN LowerChars[IndexIn(UpperChars, c)] ELSE c
\* String.prototype.toLowerCase
ToLowerCase(s) == [i \in 1..Len(s) |-> LowerChar(s[i])]

\* s.slice(a - 1, b) with 1-based inclusive positions a..b
Slice(s, a, b) == IF a > b THEN << >> ELSE SubSeq(s, a, b)

\* the text starting at position i begins with sub
StartsAt(s, i, sub) == /\ i >= 1
                       /\ i + Len(sub) - 1 <= Len(s)
                       /\ \A k \in 1..Len(sub) : s[i + k - 1] = sub[k]

\* String.prototype.includes
Includes(s, sub) == \E i \in 1..(Len(s) + 1) : StartsAt(s, i, sub)

\* String.prototype.trim (the only white space of the model is the blank)
RECURSIVE TrimLeft(_)
TrimLeft(s) == IF s # << >> /\ IsSpace(Head(s)) THEN TrimLeft(Tail(s)) ELSE s
RECURSIVE TrimRight(_)
TrimRight(s) == IF s # << >> /\ IsSpace(s[Len(s)]) THEN TrimRight(Slice(s, 1, Len(s) - 1)) ELSE s
Trim(s) == TrimRight(TrimLeft(s))

\* s.replace(/\s+/g, ' ')
RECURSIVE CollapseSpaces(_)
CollapseSpaces(s) ==
  IF s = << >> THEN << >>
  ELSE IF IsSpace(Head(s))
       THEN <<" ">> \o CollapseSpaces(TrimLeft(s))
       ELSE <<Head(s)>> \o CollapseSpaces(Tail(s))

\* decimal digits of a natural number, String(n)
RECURSIVE NatToString(_)
NatToString(n) == IF n < 10 THEN <<DigitChars[n + 1]>>
                  ELSE NatToString(n \div 10) \o <<DigitChars[(n % 10) + 1]>>

\* Number(s) / parseInt(s) of a string of decimal digits
RECURSIVE DigitsToNat(_)
DigitsToNat(s) == IF s = << >> THEN 0
                  ELSE 10 * DigitsToNat(Slice(s, 1, Len(s) - 1)) + (IndexIn(DigitChars, s[Len(s)]) - 1)

\* a < b in the order of Array.prototype.sort without a comparator:
\* the elements are compared as strings, code unit by code unit
RECURSIVE StringLess(_, _)
StringLess(a, b) ==
  IF b = << >> THEN FALSE
  ELSE IF a = << >> THEN TRUE
  ELSE IF CharCode(Head(a)) # CharCode(Head(b)) THEN CharCode(Head(a)) < CharCode(Head(b))
  ELSE StringLess(Tail(a), Tail(b))

(***************************************************************************)
(* Inputs: CSV rows and files                                              *)
(***************************************************************************)
\* A parsed CSV row, with the columns under their canonical names; NULL is a
\* column the file does not have.
IntakeRows == {
    [animalId |-> <<"A", "1">>, dtRaw |-> <<"2", "0", "1", "9", "-", "0", "3">>,
     monthyear |-> NULL,
     foundLocation |-> <<"7", "8", "7", "0", "4", " ", "z", "i", "l", "k", "e", "r">>,
     outcomeType |-> NULL],
    [animalId |-> <<"A", "2">>, dtRaw |-> <<"2", "0", "2", "0", "-", "0", "7">>,
     monthyear |-> <<"2", "0", "2", "0", "-", "0", "7">>,
     foundLocation |-> <<"5", " ", "M", "a", "i", "n", " ", "S", "t", " ", "7", "8", "7", "0", "2">>,
     outcomeType |-> NULL],
    [animalId |-> <<"A", "3">>, dtRaw |-> <<"+", "0", "1", "0", "0", "0", "0", "-", "0", "1">>,
     monthyear |-> NULL,
     foundLocation |-> <<"9", " ", "O", "a", "k", " ", "S", "t", " ", "i", "n", " ", "A", "u", "s", "t", "i", "n", " ", "(", "T", "X", ")">>,
     outcomeType |-> NULL],
    [animalId |-> <<"A", "4">>, dtRaw |-> <<>>,
     monthyear |-> <<"2", "0", "2", "0", "-", "0", "7">>,
     foundLocation |-> <<" ", " ">>,
     outcomeType |-> NULL],
    [animalId |-> <<"A", "5">>, dtRaw |-> <<"n", "/", "a">>,
     monthyear |-> <<"0", "7", "-", "2", "0", "1", "9">>,
     foundLocation |-> <<"O", "a", "k", " ", " ", "S", "t">>,
     outcomeType |-> NULL],
    [animalId |-> <<"A", "6">>, dtRaw |-> <<>>,
     monthyear |-> <<"u", "n", "k", "n", "o", "w", "n">>,
     foundLocation |-> <<"N", "o", "r", "t", "h", " ", "L", "o", "o", "p">>,
     outcomeType |-> NULL],
    [animalId |-> <<"A", "7">>, dtRaw |-> <<"2", "0", "1", "9", "-", "0", "3">>,
     monthyear |-> NULL,
     foundLocation |-> <<>>,
     outcomeType |-> NULL] }

OutcomeRows == {
    [animalId |-> <<"A", "1">>, dtRaw |-> <<"2", "0", "2", "0", "-", "0", "7">>,
     monthyear |-> <<"2", "0", "2", "0", "-", "0", "7">>,
     foundLocation |-> NULL,
     outcomeType |-> <<"A", "d", "o", "p", "t", "i", "o", "n">>],
    [animalId |-> <<"A", "2">>, dtRaw |-> <<"2", "0", "1", "9", "-", "0", "3">>,
     monthyear |-> NULL,
     foundLocation |-> NULL,
     outcomeType |-> <<"T", "r", "a", "n", "s", "f", "e", "r">>] }

\* rows of the intake file given to the loader script
LoaderRows == {
    [animalId |-> <<"A", "1">>, dtRaw |-> <<"2", "0", "1", "9", "-", "0", "3">>,
     monthyear |-> <<>>,
     foundLocation |-> <<"1", "2", " ", "E", "a", "s", "t", " ", "A", "v", "e">>,
     outcomeType |-> NULL],
    [animalId |-> <<"A", "8">>, dtRaw |-> <<"n", "/", "a">>,
     monthyear |-> <<"2", "0", "2", "0", "-", "0", "7">>,
     foundLocation |-> <<"O", "a", "k", " ", "S", "t">>,
     outcomeType |-> NULL] }

\* the most rows of one uploaded file
MaxFileRows == 2
\* the most records in the two stores together
MaxRecords == 3

SeqsUpTo(S, n) == UNION {[1..k -> S] : k \in 1..n}

IntakeNames == { <<"I", "n", "t", "a", "k", "e", "s", ".", "c", "s", "v">> }
OutcomeNames == { <<"o", "u", "t", "c", "o", "m", "e", "s", ".", "c", "s", "v">> }
OtherNames == { <<"d", "a", "t", "a", ".", "c", "s", "v">> }
\* a name with both words, for the order of the two tests
BothNames == { <<"o", "u", "t", "c", "o", "m", "e", "_", "i", "n", "t", "a", "k", "e", ".", "c", "s", "v">> }
FileNames == IntakeNames \cup OutcomeNames \cup OtherNames \cup BothNames

Files ==
  {[originalname |-> n, rows |-> r] : n \in IntakeNames, r \in SeqsUpTo(IntakeRows, MaxFileRows)}
  \cup {[originalname |-> n, rows |-> r] : n \in OutcomeNames, r \in SeqsUpTo(OutcomeRows, MaxFileRows)}
  \cup {[originalname |-> n, rows |-> r] : n \in OtherNames, r \in SeqsUpTo(IntakeRows, 1)}

\* a text that is neither absent nor empty (a truthy text)
HasText(s) == s # NULL /\ s # << >>

\* row.x || row["X"]: an empty cell counts as absent
Cell(v) == IF HasText(v) THEN v ELSE NULL

\* the texts the rows of the model carry in each column
InputLocations == {Cell(r.foundLocation) : r \in IntakeRows \cup OutcomeRows \cup LoaderRows}
InputDateTexts == {r.dtRaw : r \in IntakeRows \cup OutcomeRows \cup LoaderRows}
InputMonthYears == {r.monthyear : r \in IntakeRows \cup OutcomeRows \cup LoaderRows} \cup {NULL}

(***************************************************************************)
(* regionMapper.regionFromAddress                                          *)
(***************************************************************************)
eastZips == {78702, 78721, 78722, 78723, 78724, 78725, 78741, 78744, 78752}
westZips == {78703, 78731, 78746, 78733, 78735, 78730}
northZips == {78727, 78728, 78729, 78753, 78757, 78758, 78759}
southZips == {78704, 78745, 78747, 78748, 78749}

\* positions where /\b(787\d{2})\b/ matches
ZipMatchAt(s, i) ==
  /\ StartsAt(s, i, <<"7", "8", "7">>)
  /\ i + 4 <= Len(s)
  /\ IsDigit(s[i + 3]) /\ IsDigit(s[i + 4])
  /\ (i = 1 \/ ~IsWordChar(s[i - 1]))
  /\ (i + 4 = Len(s) \/ ~IsWordChar(s[i + 5]))

\* address.match(/\b(787\d{2})\b/): the leftmost match, as a number
ZipOf(s) ==
  IF \E i \in 1..Len(s) : ZipMatchAt(s, i)
  THEN LET i == CHOOSE j \in 1..Len(s) : ZipMatchAt(s, j) /\ \A k \in 1..(j - 1) : ~ZipMatchAt(s, k)
       IN DigitsToNat(Slice(s, i, i + 4))
  ELSE NoNumber

\* the rule chain with the ZIP lookup moved in front of the keywords
regionFromAddressZipFirst(addressRaw) ==
  IF addressRaw = NULL \/ addressRaw = << >> THEN NULL
  ELSE LET address == ToLowerCase(addressRaw)
           zip == ZipOf(address)
       IN IF zip # NoNumber /\ zip \in eastZips THEN <<"E", "a", "s", "t", " ", "A", "u", "s", "t", "i", "n">>
          ELSE IF zip # NoNumber /\ zip \in westZips THEN <<"W", "e", "s", "t", " ", "A", "u", "s", "t", "i", "n">>
          ELSE IF zip # NoNumber /\ zip \in northZips THEN <<"N", "o", "r", "t", "h", " ", "A", "u", "s", "t", "i", "n">>
          ELSE IF zip # NoNumber /\ zip \in southZips THEN <<"S", "o", "u", "t", "h", " ", "A", "u", "s", "t", "i", "n">>
          ELSE IF zip # NoNumber /\ zip = 78701 THEN <<"D", "o", "w", "n", "t", "o", "w", "n", " ", "A", "u", "s", "t", "i", "n">>
          ELSE IF Includes(address, <<"b", "a", "r", "t", "o", "n", " ", "h", "i", "l", "l", "s">>) THEN <<"B", "a", "r", "t", "o", "n", " ", "H", "i", "l", "l", "s">>
          ELSE IF Includes(address, <<"z", "i", "l", "k", "e", "r">>) THEN <<"Z", "i", "l", "k", "e", "r">>
          ELSE IF Includes(address, <<"m", "u", "e", "l", "l", "e", "r">>) THEN <<"M", "u", "e", "l", "l", "e", "r">>
          ELSE IF Includes(address, <<"d", "o", "w", "n", "t", "o", "w", "n">>) THEN <<"D", "o", "w", "n", "t", "o", "w", "n", " ", "A", "u", "s", "t", "i", "n">>
          ELSE IF Includes(address, <<"e", "a", "s", "t">>) THEN <<"E", "a", "s", "t", " ", "A", "u", "s", "t", "i", "n">>
          ELSE IF Includes(address, <<"w", "e", "s", "t">>) THEN <<"W", "e", "s", "t", " ", "A", "u", "s", "t", "i", "n">>
          ELSE IF Includes(address, <<"n", "o", "r", "t", "h">>) THEN <<"N", "o", "r", "t", "h", " ", "A", "u", "s", "t", "i", "n">>
          ELSE IF Includes(address, <<"s", "o", "u", "t", "h">>) THEN <<"S", "o", "u", "t", "h", " ", "A", "u", "s", "t", "i", "n">>
          ELSE NULL

regionFromAddress(addressRaw) ==
  IF addressRaw = NULL \/ addressRaw = << >> THEN NULL
  ELSE LET address == ToLowerCase(addressRaw)
           zip == ZipOf(address)
       IN IF Includes(address, <<"b", "a", "r", "t", "o", "n", " ", "h", "i", "l", "l", "s">>) THEN <<"B", "a", "r", "t", "o", "n", " ", "H", "i", "l", "l", "s">>
          ELSE IF Includes(address, <<"z", "i", "l", "k", "e", "r">>) THEN <<"Z", "i", "l", "k", "e", "r">>
          ELSE IF Includes(address, <<"m", "u", "e", "l", "l", "e", "r">>) THEN <<"M", "u", "e", "l", "l", "e", "r">>
          ELSE IF Includes(address, <<"d", "o", "w", "n", "t", "o", "w", "n">>) THEN <<"D", "o", "w", "n", "t", "o", "w", "n", " ", "A", "u", "s", "t", "i", "n">>
          ELSE IF zip # NoNumber /\ zip \in eastZips THEN <<"E", "a", "s", "t", " ", "A", "u", "s", "t", "i", "n">>
          ELSE IF zip # NoNumber /\ zip \in westZips THEN <<"W", "e", "s", "t", " ", "A", "u", "s", "t", "i", "n">>
          ELSE IF zip # NoNumber /\ zip \in northZips THEN <<"N", "o", "r", "t", "h", " ", "A", "u", "s", "t", "i", "n">>
          ELSE IF zip # NoNumber /\ zip \in southZips THEN <<"S", "o", "u", "t", "h", " ", "A", "u", "s", "t", "i", "n">>
          ELSE IF zip # NoNumber /\ zip = 78704 /\ Includes(address, <<"b", "a", "r", "t", "o", "n">>) THEN <<"B", "a", "r", "t", "o", "n", " ", "H", "i", "l", "l", "s">>
          ELSE IF zip # NoNumber /\ zip = 78704 /\ Includes(address, <<"z", "i", "l", "k", "e", "r">>) THEN <<"Z", "i", "l", "k", "e", "r">>
          ELSE IF zip # NoNumber /\ zip = 78723 /\ Includes(address, <<"m", "u", "e", "l", "l", "e", "r">>) THEN <<"M", "u", "e", "l", "l", "e", "r">>
          ELSE IF zip # NoNumber /\ zip = 78701 THEN <<"D", "o", "w", "n", "t", "o", "w", "n", " ", "A", "u", "s", "t", "i", "n">>
          ELSE IF Includes(address, <<"e", "a", "s", "t">>) THEN <<"E", "a", "s", "t", " ", "A", "u", "s", "t", "i", "n">>
          ELSE IF Includes(address, <<"w", "e", "s", "t">>) THEN <<"W", "e", "s", "t", " ", "A", "u", "s", "t", "i", "n">>
          ELSE IF Includes(address, <<"n", "o", "r", "t", "h">>) THEN <<"N", "o", "r", "t", "h", " ", "A", "u", "s", "t", "i", "n">>
          ELSE IF Includes(address, <<"s", "o", "u", "t", "h">>) THEN <<"S", "o", "u", "t", "h", " ", "A", "u", "s", "t", "i", "n">>
          ELSE NULL

\* regionFromAddress on the locations of the model's rows, computed once
regionFromAddressTable == [loc \in InputLocations |-> regionFromAddress(loc)]

(***************************************************************************)
(* getIntakeHeatmap: the helpers declared inside the handler               *)
(***************************************************************************)
\* normalizeLabel: s.trim().replace(/\s+/g, ' ')
normalizeLabel(s) == CollapseSpaces(Trim(s))

\* number of leading digits of s from position i on
RECURSIVE DigitRun(_, _)
DigitRun(s, i) == IF i <= Len(s) /\ IsDigit(s[i]) THEN 1 + DigitRun(s, i + 1) ELSE 0

\* /^(\d{a,b})[-\/](\d{4})$/ and /^(\d{4})[-\/](\d{1,2})$/: two digit groups of the
\* lengths in n1 and n2, one separator out of seps between them, nothing else
TwoGroups(t, n1, n2, seps) ==
  LET r1 == DigitRun(t, 1)
  IN /\ r1 \in n1
     /\ r1 + 1 <= Len(t) /\ t[r1 + 1] \in seps
     /\ DigitRun(t, r1 + 2) \in n2
     /\ r1 + 1 + DigitRun(t, r1 + 2) = Len(t)

\* /^(\d{1,2})[-\/](\d{1,2})[-\/](\d{4})$/ with the separators out of seps
\* (the optional time of day of the pattern is not among the texts of the model)
ThreeGroups(t, seps) ==
  LET r1 == DigitRun(t, 1)
      r2 == DigitRun(t, r1 + 2)
      r3 == DigitRun(t, r1 + r2 + 3)
  IN /\ r1 \in {1, 2} /\ r2 \in {1, 2} /\ r3 = 4
     /\ r1 + r2 + 2 <= Len(t)
     /\ t[r1 + 1] \in seps /\ t[r1 + r2 + 2] \in seps
     /\ r1 + r2 + 2 + r3 = Len(t)

LastFour(t) == DigitsToNat(Slice(t, Len(t) - 3, Len(t)))

\* a stored datetime is a Date, kept as its calendar year and month;
\* NoDate is null (and also stands for an Invalid Date, which the callers
\* test with isNaN(d.getTime()))
NoDate == [year |-> NoNumber, month |-> NoNumber]

\* new Date(t) for the texts the Date constructor accepts among those of the
\* model: the ISO month forms YYYY-MM and +YYYYYY-MM (expanded year) with a
\* month 01..12, read in time zone UTC
NewDate(t) ==
  IF /\ Len(t) = 7 /\ DigitRun(t, 1) = 4 /\ t[5] = "-" /\ DigitRun(t, 6) = 2
     /\ DigitsToNat(Slice(t, 6, 7)) \in 1..12
  THEN [year |-> DigitsToNat(Slice(t, 1, 4)), month |-> DigitsToNat(Slice(t, 6, 7))]
  ELSE IF /\ Len(t) = 10 /\ t[1] = "+" /\ DigitRun(t, 2) = 6 /\ t[8] = "-" /\ DigitRun(t, 9) = 2
          /\ DigitsToNat(Slice(t, 9, 10)) \in 1..12
  THEN [year |-> DigitsToNat(Slice(t, 2, 7)), month |-> DigitsToNat(Slice(t, 9, 10))]
  ELSE NoDate

\* tryParseYear of a text (the monthyear field)
tryParseYear(s) ==
  IF s = NULL \/ s = << >> THEN NoNumber
  ELSE LET t == Trim(s)
       IN IF NewDate(t) # NoDate THEN NewDate(t).year
          ELSE IF ThreeGroups(t, {"/"}) THEN LastFour(t)
          ELSE IF ThreeGroups(t, {"-", "/"}) THEN LastFour(t)
          ELSE IF TwoGroups(t, {4}, {1, 2}, {"-", "/"}) THEN DigitsToNat(Slice(t, 1, 4))
          ELSE IF TwoGroups(t, {1, 2}, {4}, {"-", "/"}) THEN LastFour(t)
          ELSE NoNumber

\* new Date and tryParseYear on the texts of the model's rows, computed once
NewDateTable == [t \in InputDateTexts |-> NewDate(t)]
tryParseYearTable == [s \in InputMonthYears |-> tryParseYear(s)]

\* tryParseYear of a Date: String(date) parsed back by new Date gives the
\* same calendar year
tryParseYearOfDate(d) == IF d = NoDate THEN NoNumber ELSE d.year

\* deriveYear without the month-year text
deriveYearOfDatetime(rec) == tryParseYearOfDate(rec.datetime)

deriveYear(rec) ==
  LET year1 == tryParseYearOfDate(rec.datetime)
  IN IF year1 # NoNumber THEN year1 ELSE tryParseYearTable[rec.monthyear]

\* s.replace(/^\s*\d+\s+/, ''): a leading house number with the blanks after it
StripHouseNumber(s) ==
  LET b == Len(s) - Len(TrimLeft(s))
      d == DigitRun(s, b + 1)
      rest == Slice(s, b + d + 1, Len(s))
  IN IF d >= 1 /\ rest # << >> /\ IsSpace(Head(rest)) THEN TrimLeft(rest) ELSE s

\* r matches [^,()]+(?:\s*\([^)]*\))?$
CityTail(r) ==
  LET plain(x) == \A k \in 1..Len(x) : x[k] \notin {",", "(", ")"}
  IN \/ r # << >> /\ plain(r)
     \/ /\ Len(r) >= 3 /\ r[Len(r)] = ")"
        /\ \E q \in 2..(Len(r) - 1) :
             /\ r[q] = "("
             /\ plain(Slice(r, 1, q - 1))
             /\ \A k \in (q + 1)..(Len(r) - 1) : r[k] # ")"

\* /\s+in\s+[^,()]+(?:\s*\([^)]*\))?$/i matches from position p to the end
CityMatchAt(s, p) ==
  /\ p <= Len(s) /\ IsSpace(s[p])
  /\ LET j == p + (Len(Slice(s, p, Len(s))) - Len(TrimLeft(Slice(s, p, Len(s)))))
     IN /\ StartsAt(ToLowerCase(s), j, <<"i", "n">>)
        /\ j + 2 <= Len(s) /\ IsSpace(s[j + 2])
        /\ CityTail(Slice(s, j + 3, Len(s)))

\* t.replace(/\s+in\s+[^,()]+(?:\s*\([^)]*\))?$/i, ''): the leftmost match is cut
StripCity(s) ==
  IF \E p \in 1..Len(s) : CityMatchAt(s, p)
  THEN LET p == CHOOSE q \in 1..Len(s) : CityMatchAt(s, q) /\ \A k \in 1..(q - 1) : ~CityMatchAt(s, k)
       IN Slice(s, 1, p - 1)
  ELSE s

bucketFromLocation(loc) ==
  IF loc = NULL \/ loc = << >> THEN NULL
  ELSE LET t == Trim(CollapseSpaces(StripCity(StripHouseNumber(Trim(loc)))))
       IN IF t = << >> THEN NULL ELSE t

RECURSIVE CodeSum(_)
CodeSum(s) == IF s = << >> THEN 0 ELSE CharCode(Head(s)) + CodeSum(Tail(s))

quadrantFromString(s) ==
  IF s = NULL \/ s = << >> THEN NULL
  ELSE << <<"Q", "u", "a", "d", "r", "a", "n", "t", " ", "A">>,
          <<"Q", "u", "a", "d", "r", "a", "n", "t", " ", "B">>,
          <<"Q", "u", "a", "d", "r", "a", "n", "t", " ", "C">>,
          <<"Q", "u", "a", "d", "r", "a", "n", "t", " ", "D">> >>[(CodeSum(s) % 4) + 1]

\* a || b of two optional texts
OrElse(a, b) == IF a # NULL /\ a # << >> THEN a ELSE b

\* regionFromAddress(locRaw) || bucketFromLocation(locRaw) || quadrantFromString(locRaw)
regionOfLocation(locRaw) ==
  OrElse(regionFromAddress(locRaw), OrElse(bucketFromLocation(locRaw), quadrantFromString(locRaw)))

\* the same on the locations of the model's rows, computed once
regionOfLocationTable == [loc \in InputLocations |-> regionOfLocation(loc)]

\* variant of regionLabel: the stored region is not looked at
regionLabelRederived(rec) ==
  LET locRaw == rec.foundLocation
      derived == regionOfLocationTable[locRaw]
  IN normalizeLabel(IF derived # NULL /\ derived # << >> THEN derived ELSE <<"U", "n", "k", "n", "o", "w", "n">>)

\* the region label getIntakeHeatmap counts a record under
regionLabel(rec) ==
  LET stored == rec.region
      locRaw == rec.foundLocation
      derived == IF stored # NULL /\ stored # << >> THEN stored
                 ELSE regionOfLocationTable[locRaw]
      region == IF derived # NULL /\ derived # << >> THEN derived
                ELSE <<"U", "n", "k", "n", "o", "w", "n">>
  IN normalizeLabel(region)

\* the stored regions and found locations of the records of the model
StoredRegionValues == {regionFromAddressTable[loc] : loc \in InputLocations} \cup {NULL}
LabelKeys == StoredRegionValues \X InputLocations

\* regionLabel by stored region and found location, computed once
regionLabelOf ==
  [key \in LabelKeys |-> regionLabel([region |-> key[1], foundLocation |-> key[2]])]

(***************************************************************************)
(* getIntakeHeatmap: fetch, accumulation and the response                  *)
(***************************************************************************)
\* the filter of IntakeRecord.find: a date or a month-year text, and a region
\* or a found location
Eligible(rec) ==
  /\ (rec.datetime # NoDate \/ HasText(rec.monthyear))
  /\ (HasText(rec.region) \/ HasText(rec.foundLocation))

\* IntakeRecord.find(filter): the matching records in the order of the store
RECURSIVE FetchIntakes(_)
FetchIntakes(store) ==
  IF store = << >> THEN << >>
  ELSE (IF Eligible(Head(store)) THEN <<Head(store)>> ELSE << >>) \o FetchIntakes(Tail(store))

\* The two count tables regionYearCounts and regionTotals are one sequence of
\* entries [label, total, counts] in the order in which the labels were first
\* seen (the order of Object.entries for labels that are not integer texts);
\* counts maps the years seen for the label to their counts.  The labels of
\* the model are ordinary texts: none is the name of a member of
\* Object.prototype (constructor, toString, __proto__, ...), for which the
\* look-ups regionYearCounts[label] and regionTotals[label] of the code would
\* find the inherited member.
HasLabel(table, label) == \E i \in 1..Len(table) : table[i].label = label
EntryIndex(table, label) == CHOOSE i \in 1..Len(table) : table[i].label = label

\* a pass that raises the total of the region only for a year new to it
CountRecordOfNewYear(table, label, year) ==
  LET t1 == IF HasLabel(table, label) THEN table
            ELSE Append(table, [label |-> label, total |-> 0, counts |-> << >>])
      i == EntryIndex(t1, label)
      e == t1[i]
      c0 == IF year \in DOMAIN e.counts THEN e.counts
            ELSE [y \in (DOMAIN e.counts) \cup {year} |->
                    IF y \in DOMAIN e.counts THEN e.counts[y] ELSE 0]
      c1 == [c0 EXCEPT ![year] = @ + 1]
  IN [t1 EXCEPT ![i] = [label |-> label,
                        total |-> IF year \in DOMAIN e.counts THEN e.total ELSE e.total + 1,
                        counts |-> c1]]

\* one pass of the forEach body for a record with a derivable year
CountRecord(table, label, year) ==
  LET t1 == IF HasLabel(table, label) THEN table
            ELSE Append(table, [label |-> label, total |-> 0, counts |-> << >>])
      i == EntryIndex(t1, label)
      e == t1[i]
      c0 == IF year \in DOMAIN e.counts THEN e.counts
            ELSE [y \in (DOMAIN e.counts) \cup {year} |->
                    IF y \in DOMAIN e.counts THEN e.counts[y] ELSE 0]
      c1 == [c0 EXCEPT ![year] = @ + 1]
  IN [t1 EXCEPT ![i] = [label |-> label, total |-> e.total + 1, counts |-> c1]]

\* intakeRecords.forEach(...)
RECURSIVE Accumulate(_, _)
Accumulate(recs, table) ==
  IF recs = << >> THEN table
  ELSE LET rec == Head(recs)
           year == deriveYear(rec)
       IN IF year = NoNumber THEN Accumulate(Tail(recs), table)
          ELSE Accumulate(Tail(recs),
                          CountRecord(table, regionLabelOf[<<rec.region, rec.foundLocation>>], year))

\* allYears: the years of all regions
AllYears(table) == UNION {DOMAIN table[i].counts : i \in 1..Len(table)}

\* Array.from(allYears).sort(): no comparator, so the years are ordered as texts
RECURSIVE SortedYears(_)
SortedYears(years) ==
  IF years = {} THEN << >>
  ELSE LET first == CHOOSE y \in years :
                      \A z \in years \ {y} : StringLess(NatToString(y), NatToString(z))
       IN <<first>> \o SortedYears(years \ {first})

\* Array.prototype.sort((a, b) => b.total - a.total): a stable sort, entries of
\* equal total keep their order
RECURSIVE InsertByTotalDesc(_, _)
InsertByTotalDesc(sorted, e) ==
  IF sorted = << >> THEN <<e>>
  ELSE IF Head(sorted).total >= e.total
       THEN <<Head(sorted)>> \o InsertByTotalDesc(Tail(sorted), e)
       ELSE <<e>> \o sorted
RECURSIVE SortByTotalDesc(_, _)
SortByTotalDesc(entries, sorted) ==
  IF entries = << >> THEN sorted
  ELSE SortByTotalDesc(Tail(entries), InsertByTotalDesc(sorted, Head(entries)))

\* variant of SortedRegions: the labels in the order of the table
UnsortedRegions(table) == [i \in 1..Len(table) |-> table[i].label]

\* sortedRegions: the labels by total, descending
SortedRegions(table) ==
  LET s == SortByTotalDesc(table, << >>) IN [i \in 1..Len(s) |-> s[i].label]

\* Object.values(regionTotals).sort((a, b) => a - b)
RECURSIVE InsertAsc(_, _)
InsertAsc(sorted, n) ==
  IF sorted = << >> THEN <<n>>
  ELSE IF Head(sorted) <= n THEN <<Head(sorted)>> \o InsertAsc(Tail(sorted), n)
       ELSE <<n>> \o sorted
RECURSIVE TotalsArray(_)
TotalsArray(table) ==
  IF table = << >> THEN << >>
  ELSE InsertAsc(TotalsArray(Slice(table, 1, Len(table) - 1)), table[Len(table)].total)

\* Math.floor(n * 0.25) and Math.floor(n * 0.75): both products are exact
Floor25(n) == n \div 4
\* variant of Floor75: the median index
FloorHalf(n) == n \div 2
Floor75(n) == (3 * n) \div 4

P25(table) == IF Len(table) > 0 THEN TotalsArray(table)[Floor25(Len(table)) + 1] ELSE 0
P75(table) == IF Len(table) > 0 THEN TotalsArray(table)[Floor75(Len(table)) + 1] ELSE 0

\* variants of RiskTier: the two upper tiers exchanged; strict comparisons
RiskTierSwapped(t, p25, p75) == IF t <= p25 THEN 1 ELSE IF t <= p75 THEN 3 ELSE 2
RiskTierStrict(t, p25, p75) == IF t < p25 THEN 1 ELSE IF t < p75 THEN 2 ELSE 3

\* the tier of a total against the two cutoffs
RiskTier(t, p25, p75) == IF t <= p25 THEN 1 ELSE IF t <= p75 THEN 2 ELSE 3

\* regionRisk: the tier of every label, from the two cutoffs computed once
RegionRisk(table) ==
  LET p25 == P25(table)
      p75 == P75(table)
  IN [label \in {table[i].label : i \in 1..Len(table)} |->
        RiskTier(table[EntryIndex(table, label)].total, p25, p75)]

\* variant of CellCount: the total of the region in every cell
CellCountTotal(table, label, year) == table[EntryIndex(table, label)].total

\* one cell of countsMatrix: regData[year] || 0
CellCount(table, label, year) ==
  LET e == table[EntryIndex(table, label)]
  IN IF year \in DOMAIN e.counts THEN e.counts[year] ELSE 0

\* variant of CellRisk: the tier of the count of the cell
CellRiskByCount(table, regionRisk, label, year) ==
  RiskTier(CellCount(table, label, year), P25(table), P75(table))

\* one cell of zValues: regionRisk[label] || 1
CellRisk(table, regionRisk, label, year) == regionRisk[label]

ZValues(table, regionRisk, regions, years) ==
  [i \in 1..Len(regions) |->
     [j \in 1..Len(years) |-> CellRisk(table, regionRisk, regions[i], years[j])]]

CountsMatrix(table, regions, years) ==
  [i \in 1..Len(regions) |-> [j \in 1..Len(years) |-> CellCount(table, regions[i], years[j])]]

\* rankedSummary: Object.entries(regionTotals).map(...).sort((a, b) => b.total - a.total)
RankedSummary(table, regionRisk) ==
  SortByTotalDesc([i \in 1..Len(table) |->
                     [label |-> table[i].label, total |-> table[i].total,
                      risk |-> regionRisk[table[i].label]]], << >>)

RECURSIVE FilterRisk3(_)
FilterRisk3(s) ==
  IF s = << >> THEN << >>
  ELSE (IF Head(s).risk = 3 THEN <<Head(s)>> ELSE << >>) \o FilterRisk3(Tail(s))

\* the length of the high-risk list: slice(0, 5)
HighRiskLimit == 5

\* variant of HighRiskZones: the last five instead of the first five
HighRiskZonesLast(ranked) ==
  LET f == FilterRisk3(ranked)
  IN Slice(f, IF Len(f) < HighRiskLimit THEN 1 ELSE Len(f) - HighRiskLimit + 1, Len(f))

\* highRiskZones: rankedSummary.filter(r => r.risk === 3).slice(0, 5)
HighRiskZones(ranked) ==
  LET f == FilterRisk3(ranked)
  IN Slice(f, 1, IF Len(f) < HighRiskLimit THEN Len(f) ELSE HighRiskLimit)

RECURSIVE SumTotals(_)
SumTotals(table) == IF table = << >> THEN 0 ELSE Head(table).total + SumTotals(Tail(table))

Verification(table, totalRecords, years) ==
  [totalRecords |-> totalRecords,
   totalByRegions |-> SumTotals(table),
   regionCount |-> Len(table),
   yearCount |-> Len(years),
   matched |-> (totalRecords = SumTotals(table))]

\* variant of HeatmapResponse: no data answered as an error
HeatmapResponseOrError(table, totalRecords) ==
  IF table = << >>
  THEN [op |-> "heatmap", status |-> 500, success |-> FALSE]
  ELSE [op |-> "heatmap", status |-> 200, success |-> TRUE,
        years |-> SortedYears(AllYears(table)), regions |-> SortedRegions(table),
        zValues |-> ZValues(table, RegionRisk(table), SortedRegions(table),
                            SortedYears(AllYears(table))),
        countsMatrix |-> CountsMatrix(table, SortedRegions(table), SortedYears(AllYears(table))),
        thresholds |-> [low |-> P25(table), medium |-> P75(table)],
        totalRecords |-> totalRecords,
        regionTotals |-> << >>,
        highRiskZones |-> HighRiskZones(RankedSummary(table, RegionRisk(table))),
        rankedSummary |-> RankedSummary(table, RegionRisk(table)),
        verification |-> Verification(table, totalRecords, SortedYears(AllYears(table)))]

\* the body of the response from the two count tables on
HeatmapResponse(table, totalRecords) ==
  LET years == SortedYears(AllYears(table))
      regions == SortedRegions(table)
      regionRisk == RegionRisk(table)
      ranked == RankedSummary(table, regionRisk)
  IN IF years = << >> \/ regions = << >>
     THEN [op |-> "heatmap", status |-> 200, success |-> TRUE,
           years |-> << >>, regions |-> << >>, zValues |-> << >>, countsMatrix |-> << >>,
           thresholds |-> [low |-> 0, medium |-> 0],
           totalRecords |-> totalRecords,
           regionTotals |-> << >>,
           highRiskZones |-> << >>, rankedSummary |-> << >>,
           verification |-> Verification(table, totalRecords, years)]
     ELSE [op |-> "heatmap", status |-> 200, success |-> TRUE,
           years |-> years, regions |-> regions,
           zValues |-> ZValues(table, regionRisk, regions, years),
           countsMatrix |-> CountsMatrix(table, regions, years),
           thresholds |-> [low |-> P25(table), medium |-> P75(table)],
           totalRecords |-> totalRecords,
           regionTotals |-> [i \in 1..Len(regions) |->
                               [label |-> regions[i],
                                total |-> table[EntryIndex(table, regions[i])].total]],
           highRiskZones |-> HighRiskZones(ranked), rankedSummary |-> ranked,
           verification |-> Verification(table, totalRecords, years)]

(***************************************************************************)
(* State                                                                   *)
(***************************************************************************)
VARIABLES
  intakeStore,    \* the IntakeRecord collection, in insertion order
  outcomeStore,   \* the OutcomeRecord collection, in insertion order
  response,       \* the answer to the latest request, none while it is in progress
  intakeRecords,  \* getIntakeHeatmap: the records fetched by the request that sent response
  regionTable,    \* getIntakeHeatmap: regionYearCounts / regionTotals of that request
  upload,         \* uploadCsv / processCsv: the ingestion in progress or just answered
  prediction,     \* getAdoptionTrends / getHotspots: the request in progress
  clear,          \* clearAllData: the request in progress, its counts
  backfill,       \* backfillRegions / backfillDatetimes: the request in progress
  forecast        \* generateFallbackTrends: the results of its queries and its last two runs

vars == <<intakeStore, outcomeStore, response, intakeRecords, regionTable, upload, prediction, clear, backfill, forecast>>

NoResponse == [op |-> "none"]
\* no ingestion in progress
NoUpload == [phase |-> "idle"]
\* no prediction request in progress
NoPrediction == [pc |-> "idle"]
\* no clearAllData in progress
NoClear == [pc |-> "idle"]
\* no backfill in progress
NoBackfill == [pc |-> "idle"]
\* generateFallbackTrends not called
NoForecast == [runs |-> << >>]

Init ==
  /\ intakeStore = << >>
  /\ outcomeStore = << >>
  /\ response = NoResponse
  /\ intakeRecords = << >>
  /\ regionTable = << >>
  /\ upload = NoUpload
  /\ prediction = NoPrediction
  /\ clear = NoClear
  /\ backfill = NoBackfill
  /\ forecast = NoForecast

(***************************************************************************)
(* dataController: processCsv and uploadCsv                                *)
(***************************************************************************)
\* dtRaw ? new Date(dtRaw) : null, an Invalid Date replaced by null
ParsedDate(dtRaw) == IF HasText(dtRaw) THEN NewDateTable[dtRaw] ELSE NoDate

IntakeDoc(row) ==
  [animalId |-> Cell(row.animalId),
   datetime |-> ParsedDate(row.dtRaw),
   monthyear |-> Cell(row.monthyear),
   foundLocation |-> Cell(row.foundLocation),
   region |-> regionFromAddressTable[Cell(row.foundLocation)]]

OutcomeDoc(row) ==
  [animalId |-> Cell(row.animalId),
   datetime |-> ParsedDate(row.dtRaw),
   monthyear |-> Cell(row.monthyear),
   outcomeType |-> Cell(row.outcomeType)]

\* processCsv: every row becomes a document and the documents are inserted
processCsv(rows, isOutcome) ==
  [i \in 1..Len(rows) |-> IF isOutcome THEN OutcomeDoc(rows[i]) ELSE IntakeDoc(rows[i])]

\* the branch taken when the name is not lower-cased first
FileKindSensitive(originalname) ==
  IF Includes(originalname, <<"i", "n", "t", "a", "k", "e">>) THEN "intake"
  ELSE IF Includes(originalname, <<"o", "u", "t", "c", "o", "m", "e">>) THEN "outcome"
  ELSE "invalid"

\* the branch of uploadCsv a file name takes
FileKind(originalname) ==
  LET lowerFilename == ToLowerCase(originalname)
  IN IF Includes(lowerFilename, <<"i", "n", "t", "a", "k", "e">>) THEN "intake"
     ELSE IF Includes(lowerFilename, <<"o", "u", "t", "c", "o", "m", "e">>) THEN "outcome"
     ELSE "invalid"

\* FileKind on the file names of the model, computed once
FileKindTable == [n \in FileNames |-> FileKind(n)]

\* uploadCsv for a file of which every batch is written, taken as one step
uploadCsv(file) ==
  LET kind == FileKindTable[file.originalname]
  IN /\ Len(intakeStore) + Len(outcomeStore) + Len(file.rows) <= MaxRecords
     /\ IF kind = "intake"
        THEN /\ intakeStore' = intakeStore \o processCsv(file.rows, FALSE)
             /\ response' = [op |-> "upload", status |-> 200, inserted |-> Len(file.rows)]
             /\ UNCHANGED outcomeStore
        ELSE IF kind = "outcome"
        THEN /\ outcomeStore' = outcomeStore \o processCsv(file.rows, TRUE)
             /\ response' = [op |-> "upload", status |-> 200, inserted |-> Len(file.rows)]
             /\ UNCHANGED intakeStore
        ELSE /\ response' = [op |-> "upload", status |-> 400, inserted |-> 0]
             /\ UNCHANGED <<intakeStore, outcomeStore>>
     /\ intakeRecords' = << >> /\ regionTable' = << >>
     /\ UNCHANGED <<upload, prediction, clear, backfill, forecast>>

(***************************************************************************)
(* load_austin.js: one row of the intake file, upserted by animalId and    *)
(* datetime                                                                *)
(***************************************************************************)
normalizeIntake(row) ==
  [animalId |-> Cell(row.animalId),
   datetime |-> NewDateTable[row.dtRaw],
   monthyear |-> row.monthyear,
   foundLocation |-> Cell(row.foundLocation)]

LoaderMatches(rec, doc) == rec.animalId = doc.animalId /\ rec.datetime = doc.datetime

\* Model.updateOne(filter, {$set: doc}, {upsert: true}); a row whose DateTime
\* is no date fails the cast and is skipped
processFileRow(row) ==
  LET doc == normalizeIntake(row)
  IN /\ IF doc.datetime = NoDate
        THEN UNCHANGED intakeStore
        ELSE IF \E i \in 1..Len(intakeStore) : LoaderMatches(intakeStore[i], doc)
        THEN LET i == CHOOSE j \in 1..Len(intakeStore) :
                        /\ LoaderMatches(intakeStore[j], doc)
                        /\ \A k \in 1..(j - 1) : ~LoaderMatches(intakeStore[k], doc)
             IN intakeStore' = [intakeStore EXCEPT ![i] =
                                  [@ EXCEPT !.monthyear = doc.monthyear,
                                            !.foundLocation = doc.foundLocation]]
        ELSE /\ Len(intakeStore) + Len(outcomeStore) < MaxRecords
             /\ intakeStore' = Append(intakeStore,
                                      [animalId |-> doc.animalId, datetime |-> doc.datetime,
                                       monthyear |-> doc.monthyear,
                                       foundLocation |-> doc.foundLocation,
                                       region |-> NULL])
     /\ UNCHANGED <<outcomeStore, response, intakeRecords, regionTable, upload, prediction, clear, backfill, forecast>>

(***************************************************************************)
(* dataController: backfillDatetimes                                       *)
(***************************************************************************)
\* new Date(year, monthIndex, 1): a year 0..99 counts from 1900, a month
\* index outside 0..11 carries into the year
DateOfYearMonth(year, monthIndex) ==
  LET months == (IF year <= 99 THEN 1900 + year ELSE year) * 12 + monthIndex
  IN [year |-> months \div 12, month |-> (months % 12) + 1]

\* the first of the three formats that gives a valid date for the month-year
\* text: new Date(x), YYYY-M, M-YYYY
BackfillDate(my) ==
  IF ~HasText(my) THEN NoDate
  ELSE LET s == Trim(my)
       IN IF NewDate(s) # NoDate THEN NewDate(s)
          ELSE IF TwoGroups(s, {4}, {1, 2}, {"-", "/"})
          THEN DateOfYearMonth(DigitsToNat(Slice(s, 1, 4)), DigitsToNat(Slice(s, 6, Len(s))) - 1)
          ELSE IF TwoGroups(s, {1, 2}, {4}, {"-", "/"})
          THEN DateOfYearMonth(LastFour(s), DigitsToNat(Slice(s, 1, Len(s) - 5)) - 1)
          ELSE NoDate

\* BackfillDate on the month-year texts of the model's rows, computed once
BackfillDateTable == [my \in InputMonthYears |-> BackfillDate(my)]

\* the records backfillDatetimes finds: datetime missing or null
MissingDatetime(store) == {i \in 1..Len(store) : store[i].datetime = NoDate}

\* the records backfillRegions finds: region missing, null or ''
MissingRegion(store) == {i \in 1..Len(store) : ~HasText(store[i].region)}

\* the size of one batch of a backfill (5000 in the code)
BATCH == 2

\* find(filter).limit(n): the first n of the matching records
FirstOf(matching, n) == {i \in matching : Cardinality({j \in matching : j < i}) < n}

\* the documents one pass of the loop of a backfill handler finds
BackfillDocs(handler, store) ==
  FirstOf(IF handler = "backfillRegions" THEN MissingRegion(store) ELSE MissingDatetime(store),
          BATCH)

\* the documents of a pass an update is pushed for: a region or a date is found
BackfillOps(handler, store) ==
  {i \in BackfillDocs(handler, store) :
     IF handler = "backfillRegions"
     THEN HasText(regionFromAddressTable[store[i].foundLocation])
     ELSE BackfillDateTable[store[i].monthyear] # NoDate}

\* an update that sets the field and removes the text it was found from
BackfillUpdateMoving(handler, rec) ==
  IF handler = "backfillRegions"
  THEN [rec EXCEPT !.region = regionFromAddressTable[rec.foundLocation], !.foundLocation = NULL]
  ELSE [rec EXCEPT !.datetime = BackfillDateTable[rec.monthyear], !.monthyear = NULL]

\* updateOne: {$set: {region}} or {$set: {datetime: parsed}}
BackfillUpdate(handler, rec) ==
  IF handler = "backfillRegions"
  THEN [rec EXCEPT !.region = regionFromAddressTable[rec.foundLocation]]
  ELSE [rec EXCEPT !.datetime = BackfillDateTable[rec.monthyear]]

\* the store after the bulkWrite of a pass
BackfillWritten(handler, store) ==
  [i \in 1..Len(store) |->
     IF i \in BackfillOps(handler, store) THEN BackfillUpdate(handler, store[i]) ELSE store[i]]

\* the loop of a backfill handler from a store on: it is left when a pass finds
\* no document or fewer than BATCH; a pass that finds BATCH documents and
\* updates none is followed by the same pass, and the loop is never left
RECURSIVE BackfillRun(_, _, _, _)
BackfillRun(handler, store, processed, updated) ==
  LET docs == BackfillDocs(handler, store)
      ops == BackfillOps(handler, store)
  IN IF docs = {}
     THEN [ended |-> TRUE, store |-> store, processed |-> processed, updated |-> updated]
     ELSE IF Cardinality(docs) < BATCH
     THEN [ended |-> TRUE, store |-> BackfillWritten(handler, store),
           processed |-> processed + Cardinality(docs), updated |-> updated + Cardinality(ops)]
     ELSE IF ops = {}
     THEN [ended |-> FALSE, store |-> store, processed |-> processed, updated |-> updated]
     ELSE BackfillRun(handler, BackfillWritten(handler, store),
                      processed + Cardinality(docs), updated + Cardinality(ops))

\* backfillDatetimes as one step, run while no ingestion is in progress, on a
\* store on which its loop is left
backfillDatetimes ==
  LET run == BackfillRun("backfillDatetimes", intakeStore, 0, 0)
  IN /\ upload.phase # "inserting"
     /\ run.ended
     /\ intakeStore' = run.store
     /\ response' = [op |-> "backfillDatetimes", status |-> 200,
                     processed |-> run.processed, updated |-> run.updated]
     /\ intakeRecords' = << >> /\ regionTable' = << >>
     /\ upload' = NoUpload
     /\ UNCHANGED <<outcomeStore, prediction, clear, backfill, forecast>>

(***************************************************************************)
(* predictionController: getIntakeHeatmap                                  *)
(***************************************************************************)
\* getIntakeHeatmap at any time: one find, then the computation on its result
getIntakeHeatmapConcurrent ==
  LET fetched == FetchIntakes(intakeStore)
      table == Accumulate(fetched, << >>)
  IN /\ intakeRecords' = fetched
     /\ regionTable' = table
     /\ response' = HeatmapResponse(table, Len(fetched))
     /\ UNCHANGED <<intakeStore, outcomeStore, upload, prediction, clear, backfill, forecast>>

\* getIntakeHeatmap, run while no ingestion is in progress
getIntakeHeatmap == upload.phase # "inserting" /\ getIntakeHeatmapConcurrent

Next ==
  \/ \E file \in Files : uploadCsv(file)
  \/ \E row \in LoaderRows : processFileRow(row)
  \/ getIntakeHeatmap

Spec == Init /\ [][Next]_vars


(***************************************************************************)
(* dataController: uploadCsv step by step, one request at a time.  The     *)
(* batches of processCsv are written concurrently and each insertMany      *)
(* ends in one of three ways.                                              *)
(***************************************************************************)
\* the documents of one batch; 10000 in the source, small here so that a file
\* of the model has a full batch and a partial one
BATCH_SIZE == 2

\* a row without the Animal ID column, its date and month-year unusable
NoIdRows == {[r EXCEPT !.animalId = << >>] : r \in {q \in IntakeRows : q.animalId = <<"A", "6">>}}

IngestIntakeRows ==
  {r \in IntakeRows : r.animalId \in {<<"A", "1">>, <<"A", "5">>}} \cup NoIdRows
IngestOutcomeRows == {r \in OutcomeRows : r.animalId = <<"A", "1">>}

IngestFiles ==
  {[originalname |-> n, rows |-> r] :
     n \in IntakeNames, r \in SeqsUpTo(IngestIntakeRows, BATCH_SIZE + 1)}
  \cup {[originalname |-> n, rows |-> r] :
          n \in OutcomeNames, r \in SeqsUpTo(IngestOutcomeRows, BATCH_SIZE + 1)}
  \cup {[originalname |-> n, rows |-> r] :
          n \in OtherNames \cup BothNames, r \in SeqsUpTo(IngestOutcomeRows, 1)}

\* documents.slice(i, i + BATCH_SIZE) for i = 0, BATCH_SIZE, ...
Batches(documents) ==
  [b \in 1..((Len(documents) + BATCH_SIZE - 1) \div BATCH_SIZE) |->
     SubSeq(documents, (b - 1) * BATCH_SIZE + 1,
            IF b * BATCH_SIZE < Len(documents) THEN b * BATCH_SIZE ELSE Len(documents))]

\* the ways collection.insertMany(batch, {ordered: false}) ends for a batch of
\* n documents, each with the set of documents the store has written by then:
\* it resolves and all are written; it throws with writeErrors, one for each
\* document not written; it throws without writeErrors (the connection is
\* lost, the server gives no answer) and any of them may have been written
InsertOutcomes(n) ==
  {[kind |-> "ok", written |-> 1..n]}
  \cup {[kind |-> "writeErrors", written |-> w] : w \in (SUBSET (1..n)) \ {1..n}}
  \cup {[kind |-> "error", written |-> w] : w \in SUBSET (1..n)}

Pending == [kind |-> "pending", written |-> {}]

\* the value the callback of batches.map returns for a settled insertMany
BatchCount(batch, outcome) ==
  IF outcome.kind = "ok" THEN Cardinality(outcome.written)
  ELSE IF outcome.kind = "writeErrors"
  THEN Len(batch) - Cardinality((1..Len(batch)) \ outcome.written)
  ELSE 0

\* the documents of a batch the store has written, in the order of the batch
RECURSIVE WrittenDocs(_, _, _)
WrittenDocs(batch, written, i) ==
  IF i > Len(batch) THEN << >>
  ELSE (IF i \in written THEN <<batch[i]>> ELSE << >>) \o WrittenDocs(batch, written, i + 1)

RECURSIVE SumOf(_, _)
\* batchResults.reduce((sum, count) => sum + count, 0)
SumOf(counts, i) == IF i > Len(counts) THEN 0 ELSE counts[i] + SumOf(counts, i + 1)

UploadDocuments(u) == processCsv(u.file.rows, u.kind = "outcome")

\* uploadCsv up to the await of Promise.all: the name is classified, the rows
\* are read and mapped, and insertMany is called for every batch
uploadCsvStart(file) ==
  LET kind == FileKindTable[file.originalname]
      before == [intake |-> intakeStore, outcome |-> outcomeStore]
  IN /\ upload.phase # "inserting"
     /\ Len(intakeStore) + Len(outcomeStore) + Len(file.rows) <= MaxRecords
     /\ IF kind = "invalid"
        THEN /\ upload' = [phase |-> "rejected", file |-> file, kind |-> kind, before |-> before,
                           outcomes |-> << >>, batchResults |-> << >>]
             /\ response' = [op |-> "upload", status |-> 400, inserted |-> 0]
        ELSE /\ upload' = [phase |-> "inserting", file |-> file, kind |-> kind, before |-> before,
                           outcomes |-> [b \in DOMAIN Batches(file.rows) |-> Pending],
                           batchResults |-> [b \in DOMAIN Batches(file.rows) |-> NoNumber]]
             /\ response' = NoResponse
     /\ intakeRecords' = << >> /\ regionTable' = << >>
     /\ UNCHANGED <<intakeStore, outcomeStore, prediction, clear, backfill, forecast>>

\* no req.file: the request carried no file
uploadCsvNoFile ==
  /\ upload.phase # "inserting"
  /\ upload' = NoUpload
  /\ response' = [op |-> "upload", status |-> 400, inserted |-> 0]
  /\ intakeRecords' = << >> /\ regionTable' = << >>
  /\ UNCHANGED <<intakeStore, outcomeStore, prediction, clear, backfill, forecast>>

\* an insert that leaves out the documents the store already holds
InsertedUnlessStored(store, batch, written) ==
  store \o WrittenDocs(batch, {i \in written : \A k \in 1..Len(store) : store[k] # batch[i]}, 1)

\* a store after insertMany has written the given documents of a batch
InsertedInto(store, batch, written) == store \o WrittenDocs(batch, written, 1)

\* the insertMany of batch idx ends and its callback returns the count
insertMany(idx, outcome) ==
  LET batch == Batches(UploadDocuments(upload))[idx]
  IN /\ upload.phase = "inserting"
     /\ upload.outcomes[idx] = Pending
     /\ upload' = [upload EXCEPT !.outcomes[idx] = outcome,
                                 !.batchResults[idx] = BatchCount(batch, outcome)]
     /\ IF upload.kind = "outcome"
        THEN /\ outcomeStore' = InsertedInto(outcomeStore, batch, outcome.written)
             /\ UNCHANGED intakeStore
        ELSE /\ intakeStore' = InsertedInto(intakeStore, batch, outcome.written)
             /\ UNCHANGED outcomeStore
     /\ UNCHANGED <<response, intakeRecords, regionTable, prediction, clear, backfill, forecast>>

\* the status when a batch that failed makes processCsv reject
UploadStatusRejecting(u) ==
  IF \E b \in DOMAIN u.outcomes : u.outcomes[b].kind # "ok" THEN 500 ELSE 200

\* the status of the answer once every insertMany has ended: the callback of
\* every batch catches, so Promise.all resolves and processCsv resolves
UploadStatus(u) == 200

\* Promise.all(insertPromises) resolves, processCsv resolves with the sum and
\* uploadCsv answers
uploadCsvEnd ==
  /\ upload.phase = "inserting"
  /\ \A b \in DOMAIN upload.outcomes : upload.outcomes[b] # Pending
  /\ upload' = [upload EXCEPT !.phase = "done"]
  /\ response' = [op |-> "upload", status |-> UploadStatus(upload),
                  inserted |-> SumOf(upload.batchResults, 1)]
  /\ UNCHANGED <<intakeStore, outcomeStore, intakeRecords, regionTable, prediction, clear, backfill, forecast>>

\* clearAllData, run while no ingestion is in progress
clearAllData ==
  /\ upload.phase # "inserting"
  /\ intakeStore' = << >>
  /\ outcomeStore' = << >>
  /\ response' = [op |-> "clear", status |-> 200,
                  deleted |-> [intakes |-> Len(intakeStore), outcomes |-> Len(outcomeStore)]]
  /\ upload' = NoUpload
  /\ intakeRecords' = << >> /\ regionTable' = << >>
  /\ UNCHANGED <<prediction, clear, backfill, forecast>>

NextIngest ==
  \/ \E file \in IngestFiles : uploadCsvStart(file)
  \/ uploadCsvNoFile
  \/ \E idx \in 1..(BATCH_SIZE + 1), n \in 1..BATCH_SIZE : \E outcome \in InsertOutcomes(n) :
       /\ upload.phase = "inserting"
       /\ idx \in DOMAIN upload.outcomes
       /\ n = Len(Batches(upload.file.rows)[idx])
       /\ insertMany(idx, outcome)
  \/ uploadCsvEnd
  \/ clearAllData
  \/ backfillDatetimes
  \/ getIntakeHeatmap

SpecIngest == Init /\ [][NextIngest]_vars


(***************************************************************************)
(* predictionController: getAdoptionTrends and getHotspots, the call of    *)
(* the ML service and the two fallback generators                          *)
(***************************************************************************)
\* outcomeType matches /^adopt/i
IsAdoption(rec) ==
  /\ rec.outcomeType # NULL
  /\ StartsAt(ToLowerCase(rec.outcomeType), 1, <<"a", "d", "o", "p", "t">>)

\* OutcomeRecord.countDocuments({outcomeType: {$regex: /^adopt/i}})
TotalAdoptions(store) == Cardinality({k \in 1..Len(store) : IsAdoption(store[k])})

\* the group of the aggregate for a calendar month: the adoptions whose
\* datetime is in that month; a null datetime is in the group of no month
AdoptionsOfMonth(store, month) ==
  {k \in 1..Len(store) : IsAdoption(store[k]) /\ store[k].datetime # NoDate
                          /\ store[k].datetime.month = month}

\* historicalPatterns.find(p => p._id === month): monthlyAdoptions and the
\* number of years, 0 and 0 when the month has no group
HistoricalData(store, month) ==
  [monthlyAdoptions |-> Cardinality(AdoptionsOfMonth(store, month)),
   years |-> Cardinality({store[k].datetime.year : k \in AdoptionsOfMonth(store, month)})]

\* seasonalMultipliers, in hundredths
seasonalMultipliers == <<70, 80, 110, 120, 110, 100, 90, 80, 100, 110, 100, 90>>

IsLeapYear(y) == (y % 4 = 0 /\ y % 100 # 0) \/ y % 400 = 0
DaysInMonth(y, m) ==
  IF m = 2 THEN (IF IsLeapYear(y) THEN 29 ELSE 28)
  ELSE IF m \in {4, 6, 9, 11} THEN 30 ELSE 31

\* futureDate.setMonth(futureDate.getMonth() + i): the day of the month is
\* kept, and a day the month does not have runs over into the next month
SetMonthPlus(now, i) ==
  LET months == now.year * 12 + (now.month - 1) + i
      y == months \div 12
      m == (months % 12) + 1
  IN IF now.day <= DaysInMonth(y, m) THEN [now EXCEPT !.year = y, !.month = m]
     ELSE [now EXCEPT !.year = (months + 1) \div 12, !.month = ((months + 1) % 12) + 1,
                      !.day = now.day - DaysInMonth(y, m)]

\* Math.max(a, b)
Min(a, b) == IF a >= b THEN b ELSE a

Max(a, b) == IF a >= b THEN a ELSE b

\* the 12 groups historicalPatterns may hold, by calendar month
HistoricalPatterns(store) == [month \in 1..12 |-> HistoricalData(store, month)]

\* the base values whose product with 0.7 is, in floating point, just below
\* the whole number it equals in exact arithmetic (90 * 0.7 is
\* 62.99999999999999); the list is complete up to 400, and no other
\* multiplier of the two tables has such a value up to 2000
RoundsBelow == {90, 170, 180, 330, 340, 350, 360}

\* Math.floor(x * c) for a multiplier c given in hundredths, x up to 400
FloorOfProduct(x, hundredths) ==
  IF hundredths = 70 /\ x \in RoundsBelow THEN ((x * hundredths) \div 100) - 1
  ELSE (x * hundredths) \div 100

\* futureDate.toISOString(): the date with the time
DateAndTimeOf(d) == d

\* futureDate.toISOString().split('T')[0]: the date without the time
DateOf(d) == [year |-> d.year, month |-> d.month, day |-> d.day]

\* one point of the forecast.  monthName, which depends on the locale of the
\* host, is not part of the point.
ForecastPoint(totalAdoptions, historicalPatterns, now, i) ==
  LET futureDate == SetMonthPlus(now, i)
      month == futureDate.month
      historicalData == historicalPatterns[month]
      baseMonthlyAdoptions == Max(50, totalAdoptions \div 12)
      historicalAverage == IF historicalData.monthlyAdoptions > 0
                           THEN historicalData.monthlyAdoptions \div historicalData.years
                           ELSE NoNumber
      base == IF historicalData.monthlyAdoptions > 0 THEN historicalAverage
              ELSE baseMonthlyAdoptions
      seasonalMultiplier == seasonalMultipliers[month]
      baseValue == FloorOfProduct(base, seasonalMultiplier)
      deterministicVariation == 95 + (month % 5)
      predictedValue == FloorOfProduct(baseValue, deterministicVariation)
  IN [ds |-> DateOf(futureDate), yhat |-> Max(10, predictedValue), month |-> month,
      seasonalFactor |-> seasonalMultiplier, historicalAverage |-> historicalAverage]

\* a loop that stops one month short
ForecastOfElevenMonths(totalAdoptions, historicalPatterns, now) ==
  [i \in 1..11 |-> ForecastPoint(totalAdoptions, historicalPatterns, now, i)]

\* for (let i = 1; i <= 12; i++) forecast.push(...)
Forecast(totalAdoptions, historicalPatterns, now) ==
  [i \in 1..12 |-> ForecastPoint(totalAdoptions, historicalPatterns, now, i)]

\* dataQuality, in hundredths
DataQualityFromThousand(totalAdoptions) ==
  IF totalAdoptions >= 1000 THEN 85 ELSE IF totalAdoptions >= 500 THEN 75 ELSE 65

DataQuality(totalAdoptions) ==
  IF totalAdoptions > 1000 THEN 85 ELSE IF totalAdoptions > 500 THEN 75 ELSE 65

\* the payload of generateFallbackTrends from the results of its queries
FallbackTrends(totalAdoptions, historicalPatterns, now) ==
  LET dataQuality == DataQuality(totalAdoptions)
  IN [prediction_type |-> "adoption_trends",
      forecast |-> Forecast(totalAdoptions, historicalPatterns, now),
      accuracy |-> dataQuality,
      data_source |-> "dynamic_historical_analysis",
      model_status |-> "enhanced_fallback",
      totalHistoricalAdoptions |-> totalAdoptions,
      forecastPeriod |-> "12_months",
      seasonalAnalysis |-> "enabled",
      confidence |-> IF dataQuality > 80 THEN "high"
                     ELSE IF dataQuality > 70 THEN "medium" ELSE "low"]

\* the payload of the catch of generateFallbackTrends
FallbackTrendsError ==
  [prediction_type |-> "adoption_trends", forecast |-> << >>, accuracy |-> 0,
   data_source |-> "error", model_status |-> "error"]

\* generateFallbackTrends when nothing changes the store between its three
\* queries: dbOk is false when a query of the store throws, which the catch
\* turns into the error payload
generateFallbackTrends(store, dbOk, now) ==
  IF dbOk
  THEN FallbackTrends(TotalAdoptions(store), HistoricalPatterns(store), now)
  ELSE FallbackTrendsError

austinAreas ==
  <<"Downtown Austin", "South Austin", "East Austin", "North Austin", "West Austin",
    "Mueller", "Zilker", "Barton Hills", "Hyde Park", "Clarksville">>

\* hotspot i of generateFallbackHotspots, i from 0; latitude and longitude in
\* units of 0.0001 degree
Hotspot(i) ==
  [cluster_id |-> i, location |-> austinAreas[i + 1],
   risk_level |-> IF i < 3 THEN "High" ELSE "Medium",
   animal_count |-> 80 + (i * 15),
   priority |-> IF i < 3 THEN "High" ELSE "Medium",
   latitude |-> 302672 + ((i % 5) - 2) * 500,
   longitude |-> (0 - 977431) + ((i % 7) - 3) * 400]

\* find(...).limit(n)
Limit(store, n) == IF Len(store) <= n THEN store ELSE SubSeq(store, 1, n)

\* a generator whose list is as long as the records read, 8 at most
generateFallbackHotspotsOfData(intakeData, dbOk) ==
  [prediction_type |-> "high_risk_areas",
   hotspots |-> [k \in 1..(IF 8 < Len(intakeData) THEN 8 ELSE Len(intakeData)) |-> Hotspot(k - 1)],
   data_source |-> "fallback_generation", analysis_status |-> "fallback_mode"]

\* generateFallbackHotspots: intakeData is what IntakeRecord.find gave (it is
\* read and not used), dbOk is false when the find throws
generateFallbackHotspots(intakeData, dbOk) ==
  IF dbOk
  THEN [prediction_type |-> "high_risk_areas",
        hotspots |-> [k \in 1..(IF 8 < Len(austinAreas) THEN 8 ELSE Len(austinAreas)) |-> Hotspot(k - 1)],
        data_source |-> "fallback_generation", analysis_status |-> "fallback_mode"]
  ELSE [prediction_type |-> "high_risk_areas", hotspots |-> << >>,
        data_source |-> "error", analysis_status |-> "error"]

\* the outcome records of the stores the prediction handlers are run on
PredictOutcomes ==
  {OutcomeDoc(r) : r \in OutcomeRows}
  \cup {[animalId |-> <<"A", "3">>, datetime |-> [year |-> 2019, month |-> 7],
         monthyear |-> NULL, outcomeType |-> <<"a", "d", "o", "p", "t", "e", "d">>],
        [animalId |-> <<"A", "4">>, datetime |-> NoDate,
         monthyear |-> NULL, outcomeType |-> <<"A", "d", "o", "p", "t", "i", "o", "n">>]}

PredictStores == {<< >>} \cup SeqsUpTo(PredictOutcomes, MaxRecords)

\* the times of the calls: new Date()
Nows == {[year |-> 2024, month |-> 1, day |-> 15, hour |-> 9],
         [year |-> 2024, month |-> 1, day |-> 15, hour |-> 17],
         [year |-> 2024, month |-> 1, day |-> 31, hour |-> 9],
         [year |-> 2025, month |-> 1, day |-> 29, hour |-> 9],
         [year |-> 2025, month |-> 8, day |-> 31, hour |-> 9],
         [year |-> 2025, month |-> 12, day |-> 30, hour |-> 9]}

\* before new Date() is called
NoNow == [year |-> NoNumber, month |-> NoNumber, day |-> NoNumber, hour |-> NoNumber]

\* the ways axios.get(url, {timeout: 5000}) ends: a response of a 2xx status
\* resolves; any other status, no answer within 5 seconds and a transport
\* failure throw
MLOutcomes ==
  {[kind |-> "ok", status |-> 200], [kind |-> "ok", status |-> 201],
   [kind |-> "status", status |-> 503],
   [kind |-> "timeout", status |-> NoNumber],
   [kind |-> "network", status |-> NoNumber]}

\* the intake stores the prediction handlers are run on
PredictIntakeStores ==
  {<< >>} \cup {<<IntakeDoc(r)>> : r \in {x \in IntakeRows : x.animalId = <<"A", "1">>}}

InitPredict ==
  /\ intakeStore \in PredictIntakeStores
  /\ outcomeStore \in PredictStores
  /\ response = NoResponse
  /\ intakeRecords = << >>
  /\ regionTable = << >>
  /\ upload = NoUpload
  /\ prediction = NoPrediction
  /\ clear = NoClear
  /\ backfill = NoBackfill
  /\ forecast = NoForecast

\* a handler is entered and calls the ML service
PredictionRequest(handler) ==
  /\ prediction.pc \in {"idle", "done"}
  /\ prediction' = [pc |-> "awaitML", handler |-> handler, mlCalls |-> 1, fallbackRuns |-> 0,
                    ml |-> [kind |-> "pending", status |-> NoNumber], dbOk |-> TRUE,
                    now |-> NoNow]
  /\ response' = NoResponse
  /\ UNCHANGED <<intakeStore, outcomeStore, intakeRecords, regionTable, upload, clear, backfill,
               forecast>>

getAdoptionTrends == PredictionRequest("getAdoptionTrends")
getHotspots == PredictionRequest("getHotspots")

\* a catch that calls the service a second time before it falls back
AfterMLFailureRetrying(p, outcome) ==
  IF p.mlCalls < 2 THEN [p EXCEPT !.mlCalls = @ + 1]
  ELSE [p EXCEPT !.pc = "fallback", !.ml = outcome]

\* the catch of the handler: control passes to the fallback generator
AfterMLFailure(p, outcome) == [p EXCEPT !.pc = "fallback", !.ml = outcome]

\* the call of the ML service ends
axiosGet(outcome) ==
  /\ prediction.pc = "awaitML"
  /\ IF outcome.kind = "ok"
     THEN /\ prediction' = [prediction EXCEPT !.pc = "done", !.ml = outcome]
          /\ response' = [op |-> prediction.handler, status |-> outcome.status,
                          data |-> [data_source |-> "ml_service"]]
     ELSE /\ prediction' = AfterMLFailure(prediction, outcome)
          /\ UNCHANGED response
  /\ UNCHANGED <<intakeStore, outcomeStore, intakeRecords, regionTable, upload, clear, backfill,
               forecast>>

\* the fallback generator of the handler runs and its payload is sent
fallback(dbOk, now) ==
  /\ prediction.pc = "fallback"
  /\ prediction' = [prediction EXCEPT !.pc = "done", !.fallbackRuns = @ + 1, !.dbOk = dbOk,
                                        !.now = now]
  /\ response' = [op |-> prediction.handler, status |-> 200,
                  data |-> IF prediction.handler = "getAdoptionTrends"
                           THEN generateFallbackTrends(outcomeStore, dbOk, now)
                           ELSE generateFallbackHotspots(Limit(intakeStore, 1000), dbOk)]
  /\ UNCHANGED <<intakeStore, outcomeStore, intakeRecords, regionTable, upload, clear, backfill,
               forecast>>

NextPredict ==
  \/ getAdoptionTrends
  \/ getHotspots
  \/ \E outcome \in MLOutcomes : axiosGet(outcome)
  \/ \E dbOk \in BOOLEAN, now \in Nows : fallback(dbOk, now)

SpecPredict == InitPredict /\ [][NextPredict]_vars


(***************************************************************************)
(* The backfill handlers pass by pass, with ingestion, the loader script   *)
(* and the bulk clears; one request at a time                              *)
(***************************************************************************)
\* rows of uploaded files: a location no region is found for, a month-year
\* text no date is found for, and rows with both
BackfillRows == {r \in IntakeRows : r.animalId \in {<<"A", "1">>, <<"A", "4">>, <<"A", "6">>}}

BackfillFiles ==
  {[originalname |-> n, rows |-> r] : n \in IntakeNames, r \in SeqsUpTo(BackfillRows, BATCH)}
  \cup {[originalname |-> n, rows |-> r] : n \in OutcomeNames, r \in SeqsUpTo(OutcomeRows, 1)}

\* the values of type in the body of a cleanup request; "": no type
CleanupTypes == {"", "all", "intake", "outcome", "other"}

\* the counters of a backfill are kept up to this value, which a loop that is
\* left never reaches
MaxProcessed == MaxRecords * BATCH

AtMost(n, most) == IF n <= most THEN n ELSE most

\* a backfill handler is entered
backfillBegin(handler) ==
  /\ backfill.pc = "idle"
  /\ backfill' = [pc |-> "loop", handler |-> handler, processed |-> 0, updated |-> 0]
  /\ response' = NoResponse
  /\ intakeRecords' = << >> /\ regionTable' = << >>
  /\ UNCHANGED <<intakeStore, outcomeStore, upload, prediction, clear, forecast>>

backfillRegions == backfillBegin("backfillRegions")
backfillDatetimesBegin == backfillBegin("backfillDatetimes")

\* a pass of while (true) begins: await IntakeRecord.find(...).limit(BATCH)
backfillFind ==
  /\ backfill.pc = "loop"
  /\ backfill' = [pc |-> "write", handler |-> backfill.handler,
                  processed |-> backfill.processed, updated |-> backfill.updated,
                  docs |-> BackfillDocs(backfill.handler, intakeStore)]
  /\ UNCHANGED <<intakeStore, outcomeStore, response, intakeRecords, regionTable, upload,
                 prediction, clear, forecast>>

\* the pass ends: bulkWrite of the updates, the counters, and the response
\* when the loop is left; no other request is served during a backfill, so the
\* store is the one the documents were found in
backfillLoop ==
  LET docs == backfill.docs
      ops == BackfillOps(backfill.handler, intakeStore)
      processed == AtMost(backfill.processed + Cardinality(docs), MaxProcessed)
      updated == AtMost(backfill.updated + Cardinality(ops), MaxProcessed)
  IN /\ backfill.pc = "write"
     /\ intakeStore' = BackfillWritten(backfill.handler, intakeStore)
     /\ IF Cardinality(docs) < BATCH
        THEN /\ backfill' = NoBackfill
             /\ response' = [op |-> backfill.handler, status |-> 200,
                             processed |-> processed, updated |-> updated]
        ELSE /\ backfill' = [pc |-> "loop", handler |-> backfill.handler,
                             processed |-> processed, updated |-> updated]
             /\ UNCHANGED response
     /\ UNCHANGED <<outcomeStore, intakeRecords, regionTable, upload, prediction, clear, forecast>>

\* cleanupData: deleteMany on the stores the type names
cleanupData(type) ==
  LET intakes == type \in {"", "all", "intake"}
      outcomes == type \in {"", "all", "outcome"}
  IN /\ intakeStore' = IF intakes THEN << >> ELSE intakeStore
     /\ outcomeStore' = IF outcomes THEN << >> ELSE outcomeStore
     /\ response' = [op |-> "cleanup", status |-> 200,
                     deletedIntakes |-> IF intakes THEN Len(intakeStore) ELSE 0,
                     deletedOutcomes |-> IF outcomes THEN Len(outcomeStore) ELSE 0]
     /\ intakeRecords' = << >> /\ regionTable' = << >>
     /\ UNCHANGED <<upload, prediction, clear, backfill, forecast>>

NextBackfill ==
  \/ backfillRegions
  \/ backfillDatetimesBegin
  \/ backfillFind
  \/ backfillLoop
  \/ \E file \in BackfillFiles : backfill.pc = "idle" /\ uploadCsv(file)
  \/ \E row \in LoaderRows : backfill.pc = "idle" /\ processFileRow(row)
  \/ \E type \in CleanupTypes : backfill.pc = "idle" /\ cleanupData(type)
  \/ backfill.pc = "idle" /\ clearAllData
  \/ backfill.pc = "idle" /\ getIntakeHeatmap

SpecBackfill == Init /\ [][NextBackfill]_vars

\* the loop of a backfill handler goes on while it can
SpecBackfillFair == SpecBackfill /\ WF_vars(backfillFind) /\ WF_vars(backfillLoop)


(***************************************************************************)
(* Requests in progress at the same time: an ingestion batch by batch,     *)
(* clearAllData and generateFallbackTrends query by query, the heatmap     *)
(***************************************************************************)
\* an intake file of one row, and outcome files of one row and of two batches
ConcurrentFiles ==
  {[originalname |-> n, rows |-> r] :
     n \in IntakeNames, r \in SeqsUpTo({x \in IntakeRows : x.animalId = <<"A", "1">>}, 1)}
  \cup {[originalname |-> n, rows |-> r] :
          n \in OutcomeNames,
          r \in {s \in SeqsUpTo(IngestOutcomeRows, BATCH_SIZE + 1) : Len(s) \in {1, BATCH_SIZE + 1}}}

\* clearAllData: await IntakeRecord.countDocuments()
clearCountIntakes ==
  /\ clear.pc = "idle"
  /\ clear' = [pc |-> "countOutcomes", intakeCount |-> Len(intakeStore), outcomeCount |-> 0,
               removedIntakes |-> 0]
  /\ UNCHANGED <<intakeStore, outcomeStore, response, intakeRecords, regionTable, upload,
                 prediction, backfill, forecast>>

\* clearAllData: await OutcomeRecord.countDocuments()
clearCountOutcomes ==
  /\ clear.pc = "countOutcomes"
  /\ clear' = [clear EXCEPT !.pc = "deleteIntakes", !.outcomeCount = Len(outcomeStore)]
  /\ UNCHANGED <<intakeStore, outcomeStore, response, intakeRecords, regionTable, upload,
                 prediction, backfill, forecast>>

\* clearAllData: await IntakeRecord.deleteMany({}); removedIntakes is the
\* number of records the deletion removed
clearDeleteIntakes ==
  /\ clear.pc = "deleteIntakes"
  /\ intakeStore' = << >>
  /\ clear' = [clear EXCEPT !.pc = "deleteOutcomes", !.removedIntakes = Len(intakeStore)]
  /\ UNCHANGED <<outcomeStore, response, intakeRecords, regionTable, upload, prediction,
                 backfill, forecast>>

\* clearAllData: await OutcomeRecord.deleteMany({}) and the response with the
\* two counts
clearDeleteOutcomes ==
  /\ clear.pc = "deleteOutcomes"
  /\ outcomeStore' = << >>
  /\ clear' = NoClear
  /\ response' = [op |-> "clear", status |-> 200,
                  deleted |-> [intakes |-> clear.intakeCount, outcomes |-> clear.outcomeCount]]
  /\ intakeRecords' = << >> /\ regionTable' = << >>
  /\ UNCHANGED <<intakeStore, upload, prediction, backfill, forecast>>

\* generateFallbackTrends: await OutcomeRecord.countDocuments() (totalOutcomes)
trendsCountOutcomes ==
  /\ prediction.pc = "fallback"
  /\ prediction.handler = "getAdoptionTrends"
  /\ prediction' = [pc |-> "countAdoptions", handler |-> prediction.handler,
                    totalOutcomes |-> Len(outcomeStore)]
  /\ UNCHANGED <<intakeStore, outcomeStore, response, intakeRecords, regionTable, upload,
                 clear, backfill, forecast>>

\* generateFallbackTrends: await OutcomeRecord.countDocuments({outcomeType: ...});
\* counted is the state of the store the count was answered from
trendsCountAdoptions ==
  /\ prediction.pc = "countAdoptions"
  /\ prediction' = [pc |-> "aggregate", handler |-> prediction.handler,
                    totalAdoptions |-> TotalAdoptions(outcomeStore), counted |-> outcomeStore]
  /\ UNCHANGED <<intakeStore, outcomeStore, response, intakeRecords, regionTable, upload,
                 clear, backfill, forecast>>

\* generateFallbackTrends: await OutcomeRecord.aggregate(...), the forecast, and
\* the response of the handler
trendsAggregate(now) ==
  /\ prediction.pc = "aggregate"
  /\ prediction' = NoPrediction
  /\ response' = [op |-> prediction.handler, status |-> 200,
                  data |-> FallbackTrends(prediction.totalAdoptions,
                                          HistoricalPatterns(outcomeStore), now)]
  /\ intakeRecords' = << >> /\ regionTable' = << >>
  /\ UNCHANGED <<intakeStore, outcomeStore, upload, clear, backfill, forecast>>

\* the time of the calls of the concurrent handlers
ConcurrentNows == {now \in Nows : now.day = 15 /\ now.hour = 9}

NextConcurrent ==
  \/ \E file \in ConcurrentFiles : uploadCsvStart(file)
  \/ \E idx \in 1..(BATCH_SIZE + 1), n \in 1..BATCH_SIZE :
       /\ upload.phase = "inserting"
       /\ idx \in DOMAIN upload.outcomes
       /\ n = Len(Batches(upload.file.rows)[idx])
       /\ insertMany(idx, [kind |-> "ok", written |-> 1..n])
  \/ uploadCsvEnd
  \/ clearCountIntakes
  \/ clearCountOutcomes
  \/ clearDeleteIntakes
  \/ clearDeleteOutcomes
  \/ prediction.pc = "idle" /\ getAdoptionTrends
  \/ \E outcome \in {o \in MLOutcomes : o.kind = "timeout"} : axiosGet(outcome)
  \/ trendsCountOutcomes
  \/ trendsCountAdoptions
  \/ \E now \in ConcurrentNows : trendsAggregate(now)
  \/ getIntakeHeatmapConcurrent

SpecConcurrent == Init /\ [][NextConcurrent]_vars


(***************************************************************************)
(* generateFallbackTrends on given results of its queries, run repeatedly  *)
(* against an unchanged outcome store                                      *)
(***************************************************************************)
\* the adoption counts the store may give
AdoptionTotals == {0, 1, 499, 500, 501, 999, 1000, 1001, 1080}

\* the group of the aggregate for one calendar month (month 0: no group):
\* its adoptions and the number of years they are from
MonthGroups ==
  {[month |-> 0, monthlyAdoptions |-> 0, years |-> 0]}
  \cup {[month |-> m, monthlyAdoptions |-> g[1], years |-> g[2]] :
          m \in {1, 2, 7}, g \in {<<1, 1>>, <<19, 2>>, <<90, 1>>, <<180, 2>>, <<400, 1>>}}

\* the results of the queries: the adoptions of a month are among all adoptions
ForecastDatasets ==
  {d \in [totalAdoptions : AdoptionTotals, group : MonthGroups] :
     d.group.monthlyAdoptions <= d.totalAdoptions}

PatternsOf(dataset) ==
  [month \in 1..12 |->
     IF month = dataset.group.month
     THEN [monthlyAdoptions |-> dataset.group.monthlyAdoptions, years |-> dataset.group.years]
     ELSE [monthlyAdoptions |-> 0, years |-> 0]]

InitForecast ==
  /\ intakeStore = << >>
  /\ outcomeStore = << >>
  /\ response = NoResponse
  /\ intakeRecords = << >>
  /\ regionTable = << >>
  /\ upload = NoUpload
  /\ prediction = NoPrediction
  /\ clear = NoClear
  /\ backfill = NoBackfill
  /\ forecast \in {[dataset |-> d, runs |-> << >>] : d \in ForecastDatasets}

\* the last two entries of a sequence
LastTwo(s) == IF Len(s) <= 2 THEN s ELSE SubSeq(s, Len(s) - 1, Len(s))

\* one more call of generateFallbackTrends, its queries succeeding
generateFallbackTrendsCall(now) ==
  /\ forecast' = [forecast EXCEPT !.runs =
                    LastTwo(Append(@, [now |-> now,
                                       data |-> FallbackTrends(forecast.dataset.totalAdoptions,
                                                               PatternsOf(forecast.dataset), now)]))]
  /\ UNCHANGED <<intakeStore, outcomeStore, response, intakeRecords, regionTable, upload,
                 prediction, clear, backfill>>

NextForecast == \E now \in Nows : generateFallbackTrendsCall(now)

SpecForecast == InitForecast /\ [][NextForecast]_vars


(***************************************************************************)
(* The tiering and ranking part of getIntakeHeatmap on given count tables  *)
(***************************************************************************)
\* the most regions of a freely chosen count table
MaxTierRegions == 5
\* the totals of the regions of a freely chosen count table
MaxTierTotal == 3
\* large tables: a block of regions of total 1 and a block of busier regions
LowRegions == 19
MaxHighRegions == 7

\* the years the records of the given tables fall in
TableYears == {2020}

RegionName(i) == <<"R">> \o NatToString(i)

\* the count table of regions RegionName(1..n) with the given totals
TableOf(totals) ==
  [i \in 1..Len(totals) |->
     [label |-> RegionName(i), total |-> totals[i],
      counts |-> [y \in TableYears |-> totals[i]]]]

\* region totals {A:5, B:20, C:45, D:80}
ScenarioTable ==
  << [label |-> <<"A">>, total |-> 5, counts |-> [y \in TableYears |-> 5]],
     [label |-> <<"B">>, total |-> 20, counts |-> [y \in TableYears |-> 20]],
     [label |-> <<"C">>, total |-> 45, counts |-> [y \in TableYears |-> 45]],
     [label |-> <<"D">>, total |-> 80, counts |-> [y \in TableYears |-> 80]] >>

SmallTables == {TableOf(t) : t \in UNION {[1..n -> 1..MaxTierTotal] : n \in 0..MaxTierRegions}}

LowBlock == [i \in 1..LowRegions |-> 1]

\* the busier regions counted after the quiet ones, or before them
LargeTables ==
  UNION {{TableOf(LowBlock \o h), TableOf(h \o LowBlock)} :
           h \in UNION {[1..n -> {2, 3}] : n \in (MaxHighRegions - 1)..MaxHighRegions}}

TierTables == SmallTables \cup LargeTables \cup {ScenarioTable}

InitTiers ==
  /\ intakeStore = << >>
  /\ outcomeStore = << >>
  /\ response = NoResponse
  /\ intakeRecords = << >>
  /\ regionTable \in TierTables
  /\ upload = NoUpload
  /\ prediction = NoPrediction
  /\ clear = NoClear
  /\ backfill = NoBackfill
  /\ forecast = NoForecast

\* getIntakeHeatmap from the count tables on: years, regions, cutoffs, tiers,
\* matrices, ranking
heatmapOfTable ==
  /\ response = NoResponse
  /\ response' = HeatmapResponse(regionTable, SumTotals(regionTable))
  /\ UNCHANGED <<intakeStore, outcomeStore, intakeRecords, regionTable, upload, prediction, clear, backfill, forecast>>

NextTiers == heatmapOfTable

SpecTiers == InitTiers /\ [][NextTiers]_vars


(***************************************************************************)
(* Properties of the tiering (SpecTiers)                                   *)
(***************************************************************************)
IsHeatmap == response.op = "heatmap"
Ranked == response.rankedSummary

\* C1: the tier assignment is monotonic: of two regions of one response, the
\* one with the strictly higher total never has the lower tier.
C1_TierMonotonic ==
  IsHeatmap =>
    \A i, j \in 1..Len(Ranked) :
      Ranked[i].total > Ranked[j].total => Ranked[i].risk >= Ranked[j].risk

\* C1 happens: a response whose regions carry all three tiers
C1_Witness ==
  /\ IsHeatmap
  /\ \A tier \in {1, 2, 3} : \E i \in 1..Len(Ranked) : Ranked[i].risk = tier

\* the totals of the table of the request, as a function of the position
TableTotals == [i \in 1..Len(regionTable) |-> regionTable[i].total]

\* v is the element at 0-based index k of the totals in ascending order:
\* at most k totals are below v and more than k totals are at most v
IsOrderStatistic(v, k) ==
  /\ \E i \in 1..Len(TableTotals) : TableTotals[i] = v
  /\ Cardinality({i \in 1..Len(TableTotals) : TableTotals[i] < v}) <= k
  /\ Cardinality({i \in 1..Len(TableTotals) : TableTotals[i] <= v}) > k

\* the tier the rule of the specification gives a total
TierByRule(t, low, medium) == IF t <= low THEN 1 ELSE IF t <= medium THEN 2 ELSE 3

\* C2: for n >= 1 region totals the cutoffs are the order statistics at the
\* indices floor(n*0.25) and floor(n*0.75) of the ascending totals, they are
\* reported as thresholds.low and thresholds.medium, every region has tier 1
\* if total <= p25, 2 if p25 < total <= p75 and 3 otherwise, and when all
\* totals are equal every region is tier 1.
C2_PercentileTiers ==
  (IsHeatmap /\ Len(regionTable) >= 1) =>
    LET n == Len(regionTable)
        low == response.thresholds.low
        medium == response.thresholds.medium
    IN /\ IsOrderStatistic(low, n \div 4)
       /\ IsOrderStatistic(medium, (3 * n) \div 4)
       /\ Len(Ranked) = n
       /\ \A i \in 1..n : Ranked[i].risk = TierByRule(Ranked[i].total, low, medium)
       /\ (\A i, j \in 1..n : TableTotals[i] = TableTotals[j]) =>
            \A i \in 1..n : Ranked[i].risk = 1

\* C2 happens: four or more regions, not all of one total, cutoffs that differ
C2_Witness ==
  /\ IsHeatmap
  /\ Len(regionTable) >= 4
  /\ response.thresholds.low < response.thresholds.medium
  /\ \E i \in 1..Len(Ranked) : Ranked[i].risk = 3

RiskOfLabel(label) ==
  LET i == CHOOSE k \in 1..Len(Ranked) : Ranked[k].label = label IN Ranked[i].risk

\* C6: with at most four regions no region is tier 3 and highRiskZones is
\* empty; for the totals {A:5, B:20, C:45, D:80} the tiers are 1, 1, 2, 2.
C6_MaxNotHighUpToFour ==
  IsHeatmap =>
    /\ Len(regionTable) <= 4 =>
         /\ \A i \in 1..Len(Ranked) : Ranked[i].risk # 3
         /\ response.highRiskZones = << >>
    /\ regionTable = ScenarioTable =>
         /\ RiskOfLabel(<<"A">>) = 1 /\ RiskOfLabel(<<"B">>) = 1
         /\ RiskOfLabel(<<"C">>) = 2 /\ RiskOfLabel(<<"D">>) = 2

\* C6 happens: the response for the totals 5, 20, 45, 80
C6_Witness ==
  /\ IsHeatmap
  /\ regionTable = ScenarioTable
  /\ Len(Ranked) = 4

TableLabels == {regionTable[i].label : i \in 1..Len(regionTable)}
TotalOfLabel(label) == regionTable[EntryIndex(regionTable, label)].total

\* C8: regions is ordered by non-increasing total, and rankedSummary lists
\* every region exactly once in that same order with its total and its tier.
C8_RankedOrder ==
  IsHeatmap =>
    LET regions == response.regions
        n == Len(regions)
        totals == [i \in 1..n |-> TotalOfLabel(regions[i])]
    IN /\ n = Len(regionTable)
       /\ {regions[i] : i \in 1..n} = TableLabels
       /\ \A i, j \in 1..n : i < j => totals[i] >= totals[j]
       /\ Len(Ranked) = n
       /\ \A i \in 1..n :
            /\ Ranked[i].label = regions[i]
            /\ Ranked[i].total = totals[i]
            /\ response.regionTotals[i] = [label |-> regions[i], total |-> Ranked[i].total]
            /\ Ranked[i].risk = TierByRule(Ranked[i].total, response.thresholds.low,
                                           response.thresholds.medium)

\* C8 happens: regions counted in ascending order of total, with a tie
C8_Witness ==
  /\ IsHeatmap
  /\ Len(regionTable) >= 3
  /\ regionTable[1].total < regionTable[2].total
  /\ regionTable[2].total = regionTable[3].total
  /\ response.regions[1] = regionTable[2].label

\* C9: highRiskZones has at most five entries, each a tier-3 region of the
\* ranking, in non-increasing order of total, and no tier-3 region left out
\* has a larger total than one that is included.
C9_HighRiskZones ==
  IsHeatmap =>
    LET zones == response.highRiskZones
    IN /\ Len(zones) <= 5
       /\ \A i \in 1..Len(zones) :
            /\ zones[i].risk = 3
            /\ \E k \in 1..Len(Ranked) : Ranked[k] = zones[i]
       /\ \A i, j \in 1..Len(zones) : i < j => zones[i].total >= zones[j].total
       /\ \A k \in 1..Len(Ranked) :
            (Ranked[k].risk = 3 /\ \A i \in 1..Len(zones) : zones[i].label # Ranked[k].label)
              => \A i \in 1..Len(zones) : zones[i].total >= Ranked[k].total

\* C9 happens: more than five tier-3 regions of different totals, so that
\* the list is cut and a tier-3 region is left out
C9_Witness ==
  /\ IsHeatmap
  /\ Len(response.highRiskZones) = 5
  /\ Cardinality({k \in 1..Len(Ranked) : Ranked[k].risk = 3}) > 5
  /\ response.highRiskZones[1].total > response.highRiskZones[5].total

(***************************************************************************)
(* Properties of the heatmap response (Spec)                               *)
(***************************************************************************)
\* the fetched records of the request that a year could be derived from
Counted == {k \in 1..Len(intakeRecords) : deriveYear(intakeRecords[k]) # NoNumber}

RegionTotalInResponse(i) == response.regionTotals[i].total

\* C3: every zValues cell of a region's row is the tier of the region, which
\* the rule gives from the region's total and the two cutoffs alone, whatever
\* the count of the cell; every cell is 1, 2 or 3.
C3_CellsCarryRegionTier ==
  IsHeatmap =>
    \A i \in 1..Len(response.zValues) : \A j \in 1..Len(response.zValues[i]) :
      /\ response.zValues[i][j] \in {1, 2, 3}
      /\ response.zValues[i][j] =
           TierByRule(RegionTotalInResponse(i), response.thresholds.low,
                      response.thresholds.medium)
      /\ IsOrderStatistic(response.thresholds.low, Len(regionTable) \div 4)
      /\ IsOrderStatistic(response.thresholds.medium, (3 * Len(regionTable)) \div 4)

\* C3 happens: a tier-2 region with a cell of count 0, which carries 2
C3_Witness ==
  /\ IsHeatmap
  /\ \E i \in 1..Len(response.zValues) : \E j \in 1..Len(response.years) :
       /\ response.countsMatrix[i][j] = 0
       /\ response.zValues[i][j] = 2

C5_EmptyIsSuccess ==
  (IsHeatmap /\ Counted = {}) =>
    /\ response.status = 200 /\ response.success
    /\ response.years = << >> /\ response.regions = << >>
    /\ response.zValues = << >> /\ response.countsMatrix = << >>

\* C5 happens: records are fetched and none of them yields a year
C5_Witness ==
  /\ IsHeatmap
  /\ intakeRecords # << >>
  /\ Counted = {}

\* C7: the years of a response are in strictly ascending numeric order.
C7_YearsAscending ==
  IsHeatmap =>
    \A j, k \in 1..Len(response.years) : j < k => response.years[j] < response.years[k]

\* the region labels regionFromAddress can return
HeuristicLabels ==
  { <<"B", "a", "r", "t", "o", "n", " ", "H", "i", "l", "l", "s">>,
    <<"Z", "i", "l", "k", "e", "r">>,
    <<"M", "u", "e", "l", "l", "e", "r">>,
    <<"D", "o", "w", "n", "t", "o", "w", "n", " ", "A", "u", "s", "t", "i", "n">>,
    <<"E", "a", "s", "t", " ", "A", "u", "s", "t", "i", "n">>,
    <<"W", "e", "s", "t", " ", "A", "u", "s", "t", "i", "n">>,
    <<"N", "o", "r", "t", "h", " ", "A", "u", "s", "t", "i", "n">>,
    <<"S", "o", "u", "t", "h", " ", "A", "u", "s", "t", "i", "n">> }

QuadrantLabels ==
  { <<"Q", "u", "a", "d", "r", "a", "n", "t", " ", "A">>,
    <<"Q", "u", "a", "d", "r", "a", "n", "t", " ", "B">>,
    <<"Q", "u", "a", "d", "r", "a", "n", "t", " ", "C">>,
    <<"Q", "u", "a", "d", "r", "a", "n", "t", " ", "D">> }

StoredRegions == {intakeRecords[k].region : k \in {i \in 1..Len(intakeRecords) : HasText(intakeRecords[i].region)}}

\* C10 as stated: every region label of a response is a stored region, a
\* label of the heuristic, a quadrant label or "Unknown".
C10_LabelsWithoutBucket ==
  IsHeatmap =>
    \A i \in 1..Len(response.regions) :
      response.regions[i] \in
        StoredRegions \cup HeuristicLabels \cup QuadrantLabels \cup { <<"U", "n", "k", "n", "o", "w", "n">> }

\* the label the amended rule gives a record: the stored region; else the
\* heuristic on the raw location; else the location bucket; else the
\* quadrant; else "Unknown"; white space normalised
LabelByRule(rec) ==
  normalizeLabel(
    IF HasText(rec.region) THEN rec.region
    ELSE IF HasText(regionFromAddress(rec.foundLocation)) THEN regionFromAddress(rec.foundLocation)
    ELSE IF HasText(bucketFromLocation(rec.foundLocation)) THEN bucketFromLocation(rec.foundLocation)
    ELSE IF HasText(quadrantFromString(rec.foundLocation)) THEN quadrantFromString(rec.foundLocation)
    ELSE <<"U", "n", "k", "n", "o", "w", "n">>)

\* LabelByRule by stored region and found location, computed once
LabelByRuleOf ==
  [key \in LabelKeys |-> LabelByRule([region |-> key[1], foundLocation |-> key[2]])]

LocationBucketOf ==
  [loc \in InputLocations |-> bucketFromLocation(loc)]

LocationBuckets ==
  {LocationBucketOf[intakeRecords[k].foundLocation] :
     k \in {i \in 1..Len(intakeRecords) : HasText(LocationBucketOf[intakeRecords[i].foundLocation])}}

\* C10 amended: each counted record is counted under the stored region when
\* present, else the heuristic label of the raw location, else the location
\* bucket (house number and trailing "in <city>" removed), else a quadrant
\* label, else "Unknown"; so every region label of a response is a stored
\* region, a heuristic label, a location bucket, a quadrant label or "Unknown".
C10_LabelChain ==
  IsHeatmap =>
    /\ {response.regions[i] : i \in 1..Len(response.regions)} =
         {LabelByRuleOf[<<intakeRecords[k].region, intakeRecords[k].foundLocation>>] : k \in Counted}
    /\ \A i \in 1..Len(response.regions) :
         response.regions[i] \in
           StoredRegions \cup HeuristicLabels \cup LocationBuckets \cup QuadrantLabels
             \cup { <<"U", "n", "k", "n", "o", "w", "n">> }

\* C10 happens: one response with a record counted under its stored region
\* although its location now maps elsewhere, a record without stored region
\* counted under a location bucket, and one counted under a quadrant label
C10_Witness ==
  /\ IsHeatmap
  /\ \E k \in Counted :
       /\ HasText(intakeRecords[k].region)
       /\ HasText(regionFromAddress(intakeRecords[k].foundLocation))
       /\ regionFromAddress(intakeRecords[k].foundLocation) # intakeRecords[k].region
  /\ \E k \in Counted :
       /\ ~HasText(intakeRecords[k].region)
       /\ regionLabel(intakeRecords[k]) \in LocationBuckets \ HeuristicLabels
  /\ \E k \in Counted :
       /\ ~HasText(intakeRecords[k].region)
       /\ regionLabel(intakeRecords[k]) \in QuadrantLabels


(***************************************************************************)
(* regionFromAddress on its own: the addresses it is called with           *)
(***************************************************************************)
\* pieces of addresses: neighbourhood keywords, ZIP codes of the four sets,
\* 78701, a 787xx code of no set, a code inside a longer word, directional
\* words and a street
AddressTokens ==
  { <<"B", "a", "r", "t", "o", "n", " ", "H", "i", "l", "l", "s">>,
    <<"b", "a", "r", "t", "o", "n">>,
    <<"Z", "I", "L", "K", "E", "R">>,
    <<"M", "u", "e", "l", "l", "e", "r">>,
    <<"d", "o", "w", "n", "t", "o", "w", "n">>,
    <<"7", "8", "7", "0", "4">>,
    <<"7", "8", "7", "2", "3">>,
    <<"7", "8", "7", "0", "1">>,
    <<"7", "8", "7", "0", "2">>,
    <<"7", "8", "7", "0", "3">>,
    <<"7", "8", "7", "2", "7">>,
    <<"7", "8", "7", "9", "9">>,
    <<"x", "7", "8", "7", "0", "4">>,
    <<"E", "a", "s", "t">>,
    <<"w", "e", "s", "t">>,
    <<"N", "o", "r", "t", "h">>,
    <<"s", "o", "u", "t", "h">>,
    <<"O", "a", "k", " ", "S", "t">> }

\* the addresses of the calls: absent, empty, one piece, or two pieces
Addresses ==
  {NULL, << >>} \cup AddressTokens
    \cup {a \o <<" ">> \o b : a \in AddressTokens, b \in AddressTokens}


\* regionFromAddress on the addresses of the calls, computed once
regionFromAddressOf == [a \in Addresses |-> regionFromAddress(a)]

\* the contents of the intake store the calls are made under
RegionStores ==
  {<< >>} \cup {<<IntakeDoc(row)>> : row \in {r \in IntakeRows : r.animalId = <<"A", "1">>}}

InitRegion ==
  /\ intakeStore \in RegionStores
  /\ outcomeStore = << >>
  /\ response = NoResponse
  /\ intakeRecords = << >>
  /\ regionTable = << >>
  /\ upload = NoUpload
  /\ prediction = NoPrediction
  /\ clear = NoClear
  /\ backfill = NoBackfill
  /\ forecast = NoForecast

\* one call regionFromAddress(addressRaw); the response holds the argument
\* and the value returned
regionFromAddressCall(addressRaw) ==
  /\ response' = [op |-> "region", address |-> addressRaw,
                  region |-> regionFromAddressOf[addressRaw]]
  /\ UNCHANGED <<intakeStore, outcomeStore, intakeRecords, regionTable, upload, prediction, clear, backfill, forecast>>

NextRegion == \E addressRaw \in Addresses : regionFromAddressCall(addressRaw)

SpecRegion == InitRegion /\ [][NextRegion]_vars

(***************************************************************************)
(* Properties of regionFromAddress (SpecRegion)                            *)
(***************************************************************************)
IsRegionCall == response.op = "region"

\* the keyword rules, in their order
KeywordRules ==
  << [keyword |-> <<"b", "a", "r", "t", "o", "n", " ", "h", "i", "l", "l", "s">>, label |-> <<"B", "a", "r", "t", "o", "n", " ", "H", "i", "l", "l", "s">>],
     [keyword |-> <<"z", "i", "l", "k", "e", "r">>, label |-> <<"Z", "i", "l", "k", "e", "r">>],
     [keyword |-> <<"m", "u", "e", "l", "l", "e", "r">>, label |-> <<"M", "u", "e", "l", "l", "e", "r">>],
     [keyword |-> <<"d", "o", "w", "n", "t", "o", "w", "n">>, label |-> <<"D", "o", "w", "n", "t", "o", "w", "n", " ", "A", "u", "s", "t", "i", "n">>] >>

\* the ZIP rules the claim names: the four directional sets, in their order
DirectionalZipRules ==
  << [zips |-> eastZips, label |-> <<"E", "a", "s", "t", " ", "A", "u", "s", "t", "i", "n">>],
     [zips |-> westZips, label |-> <<"W", "e", "s", "t", " ", "A", "u", "s", "t", "i", "n">>],
     [zips |-> northZips, label |-> <<"N", "o", "r", "t", "h", " ", "A", "u", "s", "t", "i", "n">>],
     [zips |-> southZips, label |-> <<"S", "o", "u", "t", "h", " ", "A", "u", "s", "t", "i", "n">>] >>

\* the ZIP rules with 78701 as the last of them
ZipRulesWithDowntown ==
  Append(DirectionalZipRules, [zips |-> {78701}, label |-> <<"D", "o", "w", "n", "t", "o", "w", "n", " ", "A", "u", "s", "t", "i", "n">>])

\* the directional words, in their order
WordRules ==
  << [keyword |-> <<"e", "a", "s", "t">>, label |-> <<"E", "a", "s", "t", " ", "A", "u", "s", "t", "i", "n">>],
     [keyword |-> <<"w", "e", "s", "t">>, label |-> <<"W", "e", "s", "t", " ", "A", "u", "s", "t", "i", "n">>],
     [keyword |-> <<"n", "o", "r", "t", "h">>, label |-> <<"N", "o", "r", "t", "h", " ", "A", "u", "s", "t", "i", "n">>],
     [keyword |-> <<"s", "o", "u", "t", "h">>, label |-> <<"S", "o", "u", "t", "h", " ", "A", "u", "s", "t", "i", "n">>] >>

\* the least element of a non-empty set of numbers
Least(S) == CHOOSE i \in S : \A j \in S : i <= j

\* the label of the first matching rule: a keyword rule, then a ZIP rule for
\* the first 787xx code of the address, then a directional word; NULL for an
\* absent or empty address and when no rule matches
ChainLabel(addressRaw, zipRules) ==
  IF ~HasText(addressRaw) THEN NULL
  ELSE LET address == ToLowerCase(addressRaw)
           zip == ZipOf(address)
           byKeyword == {i \in 1..Len(KeywordRules) : Includes(address, KeywordRules[i].keyword)}
           byZip == {i \in 1..Len(zipRules) : zip \in zipRules[i].zips}
           byWord == {i \in 1..Len(WordRules) : Includes(address, WordRules[i].keyword)}
       IN IF byKeyword # {} THEN KeywordRules[Least(byKeyword)].label
          ELSE IF byZip # {} THEN zipRules[Least(byZip)].label
          ELSE IF byWord # {} THEN WordRules[Least(byWord)].label
          ELSE NULL

\* C12 as stated: the value returned is the label of the first matching rule
\* of the chain keyword, ZIP in the east/west/north/south sets, directional
\* word, and undefined when the address is empty or no rule of it matches.
C12_ChainAsClaimed ==
  IsRegionCall => response.region = ChainLabel(response.address, DirectionalZipRules)

\* C12 amended: regionFromAddress is a function of the address alone (the
\* same value under every store and after every earlier call), and the value
\* is the label of the first matching rule of the chain: keyword (barton
\* hills, zilker, mueller, downtown), then the first 787xx ZIP of the address
\* looked up in the east, west, north and south sets, then ZIP 78701 as
\* Downtown Austin, then a directional word (east, west, north, south);
\* undefined when the address is empty or no rule matches.
C12_RuleChain ==
  IsRegionCall => response.region = ChainLabel(response.address, ZipRulesWithDowntown)

\* C12 happens: with a record in the store, an address with a keyword and a
\* ZIP of the east set is given the keyword's label
C12_Witness ==
  /\ IsRegionCall
  /\ intakeStore # << >>
  /\ HasText(response.address)
  /\ ZipOf(ToLowerCase(response.address)) \in eastZips
  /\ Includes(ToLowerCase(response.address), <<"z", "i", "l", "k", "e", "r">>)
  /\ response.region = <<"Z", "i", "l", "k", "e", "r">>

NeighborhoodLabels ==
  { <<"B", "a", "r", "t", "o", "n", " ", "H", "i", "l", "l", "s">>, <<"Z", "i", "l", "k", "e", "r">>, <<"M", "u", "e", "l", "l", "e", "r">>, <<"D", "o", "w", "n", "t", "o", "w", "n", " ", "A", "u", "s", "t", "i", "n">> }

\* C13: an address with ZIP 78704 that contains "barton" or "zilker", and an
\* address with ZIP 78723 that contains "mueller", is given a neighbourhood
\* label (Barton Hills, Zilker, Mueller) and not the directional label of its
\* ZIP.
C13_KeywordOverridesZip ==
  (IsRegionCall /\ HasText(response.address)) =>
    LET address == ToLowerCase(response.address)
        zip == ZipOf(address)
    IN /\ (zip = 78704 /\ (Includes(address, <<"b", "a", "r", "t", "o", "n">>) \/ Includes(address, <<"z", "i", "l", "k", "e", "r">>)))
            => response.region \in NeighborhoodLabels
       /\ (zip = 78723 /\ Includes(address, <<"m", "u", "e", "l", "l", "e", "r">>))
            => response.region \in NeighborhoodLabels


(***************************************************************************)
(* Properties of records without a datetime (Spec)                         *)
(***************************************************************************)
\* the number of fetched records with the given label and year, the year of
\* a record being given by yearOf
RecordsInCell(label, year, yearOf(_)) ==
  Cardinality({k \in 1..Len(intakeRecords) :
                 /\ LabelByRuleOf[<<intakeRecords[k].region, intakeRecords[k].foundLocation>>] = label
                 /\ yearOf(intakeRecords[k]) = year})

\* the year of the datetime of a record, none for a null datetime
YearOfDatetime(rec) == IF rec.datetime = NoDate THEN NoNumber ELSE rec.datetime.year

\* the year of the datetime, and for a null datetime the year the month-year
\* text yields
YearOfDatetimeOrMonthYear(rec) ==
  IF rec.datetime # NoDate THEN rec.datetime.year ELSE tryParseYearTable[rec.monthyear]

\* every cell of the count matrix and every region total counts the fetched
\* records by label and by the year yearOf gives them, and every fetched
\* record yearOf gives a year has its cell
CellsCountBy(yearOf(_)) ==
  IsHeatmap =>
    /\ \A k \in 1..Len(intakeRecords) :
         yearOf(intakeRecords[k]) # NoNumber =>
           /\ \E i \in 1..Len(response.regions) :
                response.regions[i] =
                  LabelByRuleOf[<<intakeRecords[k].region, intakeRecords[k].foundLocation>>]
           /\ \E j \in 1..Len(response.years) : response.years[j] = yearOf(intakeRecords[k])
    /\ \A i \in 1..Len(response.regions) : \A j \in 1..Len(response.years) :
         response.countsMatrix[i][j] =
           RecordsInCell(response.regions[i], response.years[j], yearOf)
    /\ \A i \in 1..Len(response.regionTotals) :
         response.regionTotals[i].total =
           Cardinality({k \in 1..Len(intakeRecords) :
                          /\ LabelByRuleOf[<<intakeRecords[k].region, intakeRecords[k].foundLocation>>]
                               = response.regionTotals[i].label
                          /\ yearOf(intakeRecords[k]) # NoNumber})

\* the records the ingestion in progress or just answered has added to the
\* intake store
IntakeAdded == SubSeq(intakeStore, Len(upload.before.intake) + 1, Len(intakeStore))
NullDatetimeAdded == {k \in 1..Len(IntakeAdded) : IntakeAdded[k].datetime = NoDate}

\* the rows of the file whose date text gives no date
UnparsedRows(rows) ==
  {i \in 1..Len(rows) : ~HasText(rows[i].dtRaw) \/ NewDateTable[rows[i].dtRaw] = NoDate}

RECURSIVE UnparsedWrittenFrom(_)
\* how many of them the store has written, over the batches from b on
UnparsedWrittenFrom(b) ==
  IF b > Len(upload.outcomes) THEN 0
  ELSE Cardinality({i \in upload.outcomes[b].written :
                      (b - 1) * BATCH_SIZE + i \in UnparsedRows(upload.file.rows)})
       + UnparsedWrittenFrom(b + 1)
UnparsedRowsWritten == UnparsedWrittenFrom(1)

\* every row without a usable date that the store has written is a record of
\* null datetime
UnparsedRowsStored ==
  (upload.phase = "done" /\ upload.kind = "intake") =>
    Cardinality(NullDatetimeAdded) = UnparsedRowsWritten

UploadAnswered == upload.phase = "done" /\ response.op = "upload"

\* the records the request has added to its store
AddedCount ==
  IF upload.kind = "outcome" THEN Len(outcomeStore) - Len(upload.before.outcome)
  ELSE Len(intakeStore) - Len(upload.before.intake)

AllWritten == \A b \in DOMAIN upload.outcomes : upload.outcomes[b].kind = "ok"

\* C14 as stated: the number uploadCsv reports as inserted is the number of
\* records the request added to the store, whatever the outcomes of the
\* batches (success, write errors, failure without write-error details).
C14_InsertedIsAdded == UploadAnswered => response.inserted = AddedCount

\* the rows of batch b of the file
RowsOfBatch(b) ==
  {i \in 1..Len(upload.file.rows) : (i + BATCH_SIZE - 1) \div BATCH_SIZE = b}

\* the count the rule gives a batch: its size on success, the documents
\* without a write error when the failure lists them, 0 otherwise
CountByRule(b) ==
  LET o == upload.outcomes[b]
  IN IF o.kind = "ok" THEN Cardinality(RowsOfBatch(b))
     ELSE IF o.kind = "writeErrors" THEN Cardinality(o.written)
     ELSE 0

RECURSIVE SumOver(_, _)
SumOver(f, S) == IF S = {} THEN 0 ELSE LET x == CHOOSE y \in S : TRUE IN f[x] + SumOver(f, S \ {x})

\* C15: every batch is dispatched before any result is awaited; a batch that
\* fails neither keeps the documents of another batch from being written nor
\* makes the call reject: once all batches have ended the request is answered
\* 200 with the sum of the per-batch counts.
C15_FanOutCollect ==
  /\ upload.phase \in {"inserting", "done"} =>
       /\ DOMAIN upload.outcomes = {(i + BATCH_SIZE - 1) \div BATCH_SIZE : i \in 1..Len(upload.file.rows)}
       /\ AddedCount = SumOver([b \in DOMAIN upload.outcomes |-> Cardinality(upload.outcomes[b].written)],
                               DOMAIN upload.outcomes)
       /\ \A b \in DOMAIN upload.outcomes :
            upload.outcomes[b].kind = "ok" => upload.outcomes[b].written = 1..Cardinality(RowsOfBatch(b))
  /\ UploadAnswered =>
       /\ response.status = 200
       /\ response.inserted = SumOver([b \in DOMAIN upload.outcomes |-> CountByRule(b)],
                                      DOMAIN upload.outcomes)
  /\ response.op = "upload" => response.status \in {200, 400}

\* C15 happens: a file of two batches is answered after the second batch was
\* written first, the first batch having failed with one document written
C15_Witness ==
  /\ UploadAnswered /\ upload.kind = "intake"
  /\ Len(upload.outcomes) = 2
  /\ upload.outcomes[1].kind = "writeErrors" /\ upload.outcomes[1].written # {}
  /\ upload.outcomes[2].kind = "ok"
  /\ LET added == IntakeAdded
         docs == UploadDocuments(upload)
     IN /\ Len(added) = 2
        /\ added[1] = docs[BATCH_SIZE + 1]
        /\ added[1] # added[2]
  /\ response.inserted = 2

\* the rows without the required identifier
InvalidRows == {i \in 1..Len(upload.file.rows) : ~HasText(upload.file.rows[i].animalId)}

\* C16 as stated: of a file with invalid rows (no identifier) and at least one
\* valid row, the invalid rows are skipped: the count returned is above zero
\* and below the number of rows, and no invalid row is persisted.
C16_InvalidRowsSkipped ==
  (/\ UploadAnswered /\ upload.kind = "intake" /\ AllWritten
   /\ InvalidRows # {} /\ InvalidRows # 1..Len(upload.file.rows)) =>
    /\ response.inserted > 0
    /\ response.inserted < Len(upload.file.rows)
    /\ \A k \in 1..Len(IntakeAdded) : IntakeAdded[k].animalId # NULL

\* how often a record occurs in a store
Occurrences(store, d) == Cardinality({k \in 1..Len(store) : store[k] = d})

TargetStore == IF upload.kind = "outcome" THEN outcomeStore ELSE intakeStore
TargetBefore == IF upload.kind = "outcome" THEN upload.before.outcome ELSE upload.before.intake

\* the record a row of the file stands for
RecordOfRow(row) ==
  IF upload.kind = "outcome"
  THEN [animalId |-> Cell(row.animalId), datetime |-> ParsedDate(row.dtRaw),
        monthyear |-> Cell(row.monthyear), outcomeType |-> Cell(row.outcomeType)]
  ELSE [animalId |-> Cell(row.animalId), datetime |-> ParsedDate(row.dtRaw),
        monthyear |-> Cell(row.monthyear), foundLocation |-> Cell(row.foundLocation),
        region |-> regionFromAddressTable[Cell(row.foundLocation)]]

RowsStandingFor(d) ==
  Cardinality({i \in 1..Len(upload.file.rows) : RecordOfRow(upload.file.rows[i]) = d})

\* C17: ingestion does not deduplicate: when every batch is written, the store
\* holds each record once more for every row of the file that stands for it,
\* whatever it held before (so twice after a second ingest of the same file);
\* clearAllData leaves both stores empty, so a clear followed by an ingest
\* leaves exactly the records of that one ingest.
C17_NoDeduplication ==
  /\ (upload.phase = "done" /\ AllWritten) =>
       /\ Len(TargetStore) = Len(TargetBefore) + Len(upload.file.rows)
       /\ \A k \in 1..Len(TargetStore) :
            Occurrences(TargetStore, TargetStore[k]) =
              Occurrences(TargetBefore, TargetStore[k]) + RowsStandingFor(TargetStore[k])
       /\ TargetBefore = << >> =>
            \A i \in 1..Len(upload.file.rows) :
              Occurrences(TargetStore, RecordOfRow(upload.file.rows[i]))
                = RowsStandingFor(RecordOfRow(upload.file.rows[i]))
  /\ (response.op = "clear" /\ upload.phase = "idle") =>
       intakeStore = << >> /\ outcomeStore = << >>

\* C17 happens: a file has been ingested into a store that held exactly the
\* records of that file, and every row is now stored twice
C17_Witness ==
  /\ upload.phase = "done" /\ AllWritten /\ response.op = "upload"
  /\ Len(TargetBefore) = Len(upload.file.rows)
  /\ \A i \in 1..Len(upload.file.rows) :
       LET d == RecordOfRow(upload.file.rows[i])
       IN /\ Occurrences(TargetBefore, d) = RowsStandingFor(d)
          /\ Occurrences(TargetStore, d) = 2 * RowsStandingFor(d)

\* the name holds the word, letter case apart
HasWord(name, word) ==
  \E i \in 1..(Len(name) - Len(word) + 1) :
    \A k \in 1..Len(word) : LowerChar(name[i + k - 1]) = word[k]

NameOfIntake(name) == HasWord(name, <<"i", "n", "t", "a", "k", "e">>)
NameOfOutcome(name) == HasWord(name, <<"o", "u", "t", "c", "o", "m", "e">>)

\* C18: a file whose name holds neither "intake" nor "outcome" (letter case
\* apart) is answered 400 with both stores as they were; every other file is
\* ingested into one store, the intake store when the name holds "intake",
\* and the other store stays as it was.
C18_ClassifiedByName ==
  /\ upload.phase = "rejected" =>
       /\ ~NameOfIntake(upload.file.originalname) /\ ~NameOfOutcome(upload.file.originalname)
       /\ response.op = "upload" => response.status = 400
       /\ intakeStore = upload.before.intake /\ outcomeStore = upload.before.outcome
  /\ upload.phase \in {"inserting", "done"} =>
       /\ NameOfIntake(upload.file.originalname) \/ NameOfOutcome(upload.file.originalname)
       /\ upload.kind = (IF NameOfIntake(upload.file.originalname) THEN "intake" ELSE "outcome")
       /\ upload.kind = "intake" => outcomeStore = upload.before.outcome
       /\ upload.kind = "outcome" => intakeStore = upload.before.intake

\* C18 happens: a file of neither name has been rejected while both stores
\* hold records
C18_Witness ==
  /\ upload.phase = "rejected" /\ response.op = "upload"
  /\ intakeStore # << >> /\ outcomeStore # << >>

(***************************************************************************)
(* C19, C20: the prediction handlers, checked on SpecPredict               *)
(***************************************************************************)
MLFailed == prediction.ml.kind \in {"status", "timeout", "network"}
PredictionAnswered == prediction.pc = "done"

\* C19: in a request of getAdoptionTrends or getHotspots the ML service is
\* called exactly once and never again; the fallback generator runs only after
\* that call has failed or timed out, and at most once; the request is then
\* answered 200 with the payload of the fallback; when the call succeeds the
\* fallback does not run and the answer of the service is passed on.
C19_OneCallThenFallback ==
  prediction.pc # "idle" =>
    /\ prediction.mlCalls = 1
    /\ prediction.fallbackRuns \in {0, 1}
    /\ prediction.fallbackRuns = 1 => MLFailed
    /\ prediction.pc = "fallback" => MLFailed /\ prediction.fallbackRuns = 0
    /\ PredictionAnswered =>
         /\ response.op = prediction.handler
         /\ IF MLFailed
            THEN /\ prediction.fallbackRuns = 1
                 /\ response.status = 200
                 /\ response.data.data_source # "ml_service"
                 /\ response.data.prediction_type =
                      (IF prediction.handler = "getAdoptionTrends" THEN "adoption_trends"
                       ELSE "high_risk_areas")
            ELSE /\ prediction.ml.kind = "ok"
                 /\ prediction.fallbackRuns = 0
                 /\ response.status = prediction.ml.status
                 /\ response.data.data_source = "ml_service"

\* C19 happens: the call of the ML service timed out and the request was
\* answered with the fallback payload
C19_Witness ==
  /\ PredictionAnswered /\ prediction.ml.kind = "timeout"
  /\ prediction.handler = "getHotspots"
  /\ prediction.fallbackRuns = 1 /\ response.status = 200
  /\ Len(response.data.hotspots) = 8

FallbackTrendsAnswered ==
  /\ PredictionAnswered /\ prediction.handler = "getAdoptionTrends"
  /\ prediction.fallbackRuns = 1

\* C20 as stated: generateFallbackTrends never fails and always returns 12
\* forecast points with accuracy and confidence, for every state of the
\* outcome store.
C20_AlwaysTwelvePoints ==
  FallbackTrendsAnswered =>
    /\ response.status = 200
    /\ Len(response.data.forecast) = 12
    /\ {"accuracy", "confidence"} \subseteq DOMAIN response.data

\* C20 amended: generateFallbackTrends never fails; when the queries of the
\* outcome store succeed it returns 12 forecast points with accuracy and
\* confidence, for every state of the store, the empty one too; when a query
\* fails it returns no forecast point, accuracy 0 and status "error", without
\* confidence.
C20_TwelvePointsUnlessQueryFails ==
  FallbackTrendsAnswered =>
    /\ response.status = 200
    /\ IF prediction.dbOk
       THEN /\ Len(response.data.forecast) = 12
            /\ response.data.accuracy \in {65, 75, 85}
            /\ response.data.confidence \in {"high", "medium", "low"}
       ELSE /\ response.data.forecast = << >>
            /\ response.data.accuracy = 0
            /\ response.data.model_status = "error"
            /\ "confidence" \notin DOMAIN response.data

\* C20 happens: a forecast of 12 points from the empty store
C20_Witness ==
  /\ FallbackTrendsAnswered /\ prediction.dbOk
  /\ outcomeStore = << >>
  /\ Len(response.data.forecast) = 12
  /\ response.data.confidence = "low"


(***************************************************************************)
(* C21 .. C25: the fallback generators                                     *)
(***************************************************************************)
\* the calendar months of the points of the forecast in the response
ForecastMonths == [i \in DOMAIN response.data.forecast |-> response.data.forecast[i].month]

\* C21 as stated: the 12 points are the 12 months after the month of the
\* call: point i has calendar month ((currentMonth - 1 + i) mod 12) + 1, so
\* the points cover 12 distinct months, on every day of the month.
C21_NextTwelveMonths ==
  (FallbackTrendsAnswered /\ prediction.dbOk) =>
    /\ \A i \in 1..12 : ForecastMonths[i] = ((prediction.now.month - 1 + i) % 12) + 1
    /\ Cardinality({ForecastMonths[i] : i \in 1..12}) = 12

\* the runs of generateFallbackTrends on the dataset
Runs == 1..Len(forecast.runs)

\* C22 as stated: confidence is "high" from 1000 adoptions on, "medium" from
\* 500 to 999, "low" below 500.
C22_ConfidenceFromThousand ==
  \A r \in Runs :
    forecast.runs[r].data.confidence =
      (IF forecast.dataset.totalAdoptions >= 1000 THEN "high"
       ELSE IF forecast.dataset.totalAdoptions >= 500 THEN "medium" ELSE "low")

\* C22 amended: confidence is "high" above 1000 adoptions, "medium" above 500
\* and up to 1000, "low" up to 500 (1000 gives "medium", 500 gives "low").
C22_ConfidenceAboveThousand ==
  \A r \in Runs :
    /\ forecast.dataset.totalAdoptions \in 0..500 => forecast.runs[r].data.confidence = "low"
    /\ forecast.dataset.totalAdoptions \in 501..1000 => forecast.runs[r].data.confidence = "medium"
    /\ forecast.dataset.totalAdoptions > 1000 => forecast.runs[r].data.confidence = "high"

\* C22 happens: exactly 1000 adoptions give "medium"
C22_Witness ==
  /\ Len(forecast.runs) = 1
  /\ forecast.dataset.totalAdoptions = 1000
  /\ forecast.runs[1].data.confidence = "medium"

\* the value a point starts from: the average of its month when the month has
\* adoptions, else a twelfth of all adoptions and at least 50
BaseOfMonth(month) ==
  IF forecast.dataset.group.month = month
  THEN forecast.dataset.group.monthlyAdoptions \div forecast.dataset.group.years
  ELSE IF forecast.dataset.totalAdoptions \div 12 > 50 THEN forecast.dataset.totalAdoptions \div 12
  ELSE 50

\* C23: every predicted value is a whole number of at least 10, the floor of
\* the base value times the seasonal multiplier times the adjustment when that
\* is above 10 (it is never rounded up, and is at most 2 below the product);
\* with no adoptions every point is at least 10 and confidence is "low".
C23_ValuesAtLeastTen ==
  \A r \in Runs :
    /\ \A i \in 1..Len(forecast.runs[r].data.forecast) :
         LET point == forecast.runs[r].data.forecast[i]
             product == BaseOfMonth(point.month) * point.seasonalFactor * (95 + (point.month % 5))
         IN /\ point.yhat \in Nat
            /\ point.yhat >= 10
            /\ point.yhat > 10 => /\ point.yhat * 10000 <= product
                                  /\ product < (point.yhat + 2) * 10000
            /\ point.yhat = 10 => product < 12 * 10000
    /\ forecast.dataset.totalAdoptions = 0 => forecast.runs[r].data.confidence = "low"

\* C23 happens: a month whose average is 1 gets the minimum 10, and a base
\* value of 90 in January gets 59 (62 after the seasonal multiplier)
C23_Witness ==
  /\ Len(forecast.runs) = 2
  /\ forecast.dataset.group.month = 1
  /\ forecast.dataset.group.monthlyAdoptions \in {1, 90}
  /\ \E i \in 1..12 :
       LET point == forecast.runs[1].data.forecast[i]
       IN /\ point.month = 1
          /\ point.yhat = (IF forecast.dataset.group.monthlyAdoptions = 1 THEN 10 ELSE 59)

SameDate(a, b) == a.year = b.year /\ a.month = b.month /\ a.day = b.day

HotspotsAnswered ==
  /\ response # NoResponse
  /\ response.op = "getHotspots"
  /\ prediction.pc = "done"
  /\ prediction.fallbackRuns = 1

\* entry i (from 0) of the list as the claim gives it, the coordinates in units
\* of 0.0001 degree from the base coordinate (30.2672, -97.7431)
IsHotspotOfIndex(h, i) ==
  /\ h.animal_count = 80 + 15 * i
  /\ h.latitude - 302672 = ((i % 5) - 2) * 500
  /\ h.longitude + 977431 = ((i % 7) - 3) * 400
  /\ h.risk_level = (IF i < 3 THEN "High" ELSE "Medium")
  /\ h.priority = h.risk_level

EightHotspots(hotspots) ==
  /\ Len(hotspots) = 8
  /\ \A i \in 0..7 : IsHotspotOfIndex(hotspots[i + 1], i)

\* C25 as stated: generateFallbackHotspots returns the fixed list of 8 hotspots
\* on every invocation, whatever the contents and the availability of the store.
C25_AlwaysEightHotspots == HotspotsAnswered => EightHotspots(response.data.hotspots)

\* C25 amended: when its query of the intake store succeeds,
\* generateFallbackHotspots returns the fixed list of 8 hotspots whatever the
\* store holds; when the query fails it returns an empty list marked "error".
C25_EightHotspotsUnlessQueryFails ==
  HotspotsAnswered =>
    IF prediction.dbOk
    THEN EightHotspots(response.data.hotspots)
    ELSE /\ response.data.hotspots = << >>
         /\ response.data.data_source = "error"
         /\ response.data.analysis_status = "error"

\* C25 happens: the list is generated over a store that holds a record
C25_Witness ==
  /\ HotspotsAnswered
  /\ prediction.dbOk
  /\ intakeStore # << >>
  /\ Len(response.data.hotspots) = 8

(***************************************************************************)
(* C29: conservation of the counts of a heatmap response                   *)
(***************************************************************************)
RECURSIVE SumRow(_)
SumRow(row) == IF row = << >> THEN 0 ELSE Head(row) + SumRow(Tail(row))

\* the fetched records of the request a year could be derived from
WithYear == {k \in 1..Len(intakeRecords) : deriveYear(intakeRecords[k]) # NoNumber}

LeavesByClearOnly ==
  \/ Len(intakeStore') >= Len(intakeStore)
  \/ /\ intakeStore' = << >>
     /\ response'.op \in {"clear", "cleanup"}

RegionBackfilled(a, b) ==
  /\ backfill.pc = "write" /\ backfill.handler = "backfillRegions"
  /\ ~HasText(a.region)
  /\ HasText(b.region)
  /\ b = [a EXCEPT !.region = regionFromAddressTable[a.foundLocation]]

\* record b is record a after a pass of backfillDatetimes set its null datetime
DatetimeBackfilled(a, b) ==
  /\ backfill.pc = "write" /\ backfill.handler = "backfillDatetimes"
  /\ a.datetime = NoDate
  /\ b.datetime # NoDate
  /\ b = [a EXCEPT !.datetime = BackfillDateTable[a.monthyear]]

\* record b is record a after the loader script ingested a row of the same
\* animalId and datetime again
Reingested(a, b) ==
  /\ backfill.pc = "idle"
  /\ \E row \in LoaderRows :
       /\ LoaderMatches(a, normalizeIntake(row))
       /\ b = [a EXCEPT !.monthyear = normalizeIntake(row).monthyear,
                        !.foundLocation = normalizeIntake(row).foundLocation]

C28_BackfillResponds ==
  (backfill.pc # "idle") ~>
    (backfill.pc = "idle" /\ response.op \in {"backfillRegions", "backfillDatetimes"})

(***************************************************************************)
(* C26, C30: requests in progress at the same time                         *)
(***************************************************************************)
\* the step at which generateFallbackTrends returns and the handler answers
TrendsReturn == prediction.pc = "aggregate" /\ prediction'.pc = "idle"

\* the step at which getIntakeHeatmap answers
HeatmapReturn ==
  /\ response'.op = "heatmap"
  /\ response' # response \/ intakeRecords' # intakeRecords

\* C26: every value of one response comes from one state of the store: the
\* forecast is the forecast of one of the states its queries were answered
\* from (the count of adoptions agrees with the monthly counts), and the
\* heatmap is the heatmap of the records of one find.
C26_OneSnapshot ==
  [][/\ TrendsReturn =>
          \E S \in {prediction.counted, outcomeStore} : \E now \in ConcurrentNows :
            response'.data = FallbackTrends(TotalAdoptions(S), HistoricalPatterns(S), now)
     /\ HeatmapReturn =>
          /\ intakeRecords' = FetchIntakes(intakeStore)
          /\ response' = HeatmapResponse(Accumulate(intakeRecords', << >>), Len(intakeRecords'))]_vars

\* the step at which clearAllData answers
ClearReturn == clear.pc = "deleteOutcomes" /\ clear'.pc = "idle"

\* C30: the counts clearAllData reports are the numbers of records its two
\* deletions removed, and both stores are empty when it responds, whatever
\* batch writes of an ingestion come between its steps.
C30_ClearReportsRemoved ==
  [][ClearReturn =>
       /\ response'.deleted.intakes = clear.removedIntakes
       /\ response'.deleted.outcomes = Len(outcomeStore)
       /\ intakeStore' = << >>
       /\ outcomeStore' = << >>]_vars

====
